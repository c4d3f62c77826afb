-------------------------- MODULE KgemBoListsProofs --------------------------
(***************************************************************************)
(* The bookkeeping of kgem, for every value of the constants: what list a  *)
(* bo is on, which request it belongs to and who keeps it agree with each  *)
(* other, so that no bo leaks, no request loses its batch and no owner is  *)
(* given a bo that somebody else still holds.                              *)
(*                                                                         *)
(* As in KgemBoProofs there is one lemma for each C function, about an     *)
(* arbitrary state k of struct kgem, and below it one about a single bo.   *)
(***************************************************************************)
EXTENDS KgemBoProofs

\* No framebuffer and no snooped bo is exported to another process: kgem keeps
\* neither from its cache when it is (kgem_bo_move_to_cache, kgem.c:3023).
Private == "foreign" \in Kinds => "scanout" \notin Kinds /\ ("snoop" \in Kinds => HasLLC)

\* What a bo is from its creation on, or since it was exported.
Attributes(o) ==
  /\ o.snoop => ~o.scanout /\ ~HasLLC /\ "snoop" \in Kinds
  /\ o.scanout => "scanout" \in Kinds
  /\ o.shared => "foreign" \in Kinds
  /\ o.prime => ~o.reusable
  /\ Private /\ o.shared => ~o.reusable
  /\ Private /\ o.snoop => o.reusable

\* The list of a bo and the rest of it; a struct that is not in use is clean.
Listed(o) ==
  /\ o.list # "none" => o.refcnt = 0
  /\ o.list \in {"inactive", "snoop", "freed"} => o.rq = NoRq
  /\ o.list = "freed" => o = Freed
  /\ o.list \in {"inactive", "active"} => Recyclable(o)
  /\ o.list = "active" => o.rq # NoRq
  /\ o.list = "snoop" => o.snoop /\ ~o.prime
  /\ o.list = "scanout" => o.scanout /\ ~o.prime

\* The request of a bo, with the requests O outstanding and nx being built.
Booked(o, O, nx) ==
  /\ o.exec <=> o.rq = nx
  /\ o.rq \in O \cup {NoRq, Foreign, nx}
  /\ o.write => o.exec /\ o.needs_flush
  /\ o.rq = NoRq => ~o.needs_flush
  /\ o.batch => o.refcnt > 0 /\ Recyclable(o)

\* The flushing list F holds only bo that wait by themselves, and those of them
\* that no cache would take.
Flushing(o, b, F) ==
  /\ b \in F => o.rq = Foreign
  /\ o.snoop /\ o.reusable /\ ~o.prime /\ o.rq = Foreign => b \in F

\* Whoever is on no list is kept by a reference, a request or the flushing list.
Kept(o, b, O, nx, F) ==
  o.refcnt = 0 /\ o.list = "none" => (o.rq \in O \cup {nx}) \/ b \in F

Fine(o, b, O, nx, F) ==
  o \in BoState /\ Attributes(o) /\ Listed(o) /\ Booked(o, O, nx) /\ Flushing(o, b, F)
Good(o, b, O, nx, F) == Fine(o, b, O, nx, F) /\ Kept(o, b, O, nx, F)

\* Requests are numbered in their order; nx is the next one.
Numbered(O, nx) == nx \in Nat \ {0} /\ \A r \in O : r \in Nat \ {0} /\ r < nx

\* ExpireArmed of an arbitrary state: kgem_cleanup_cache breaks it when it moves
\* framebuffers to the inactive cache.
Expiring(k) ==
  "scanout" \notin Kinds => \A b \in Bo \ Large : k.bo[b].list = "inactive" => k.need_expire

Tracked(k) ==
  /\ Sound(k)
  /\ Numbered(Outstanding(k), k.next)
  /\ \A b \in Bo : Good(k.bo[b], b, Outstanding(k), k.next, k.flushing)
  /\ \A r \in Outstanding(k) : \E b \in Bo : k.bo[b].batch /\ k.bo[b].rq = r
  /\ k.wedged => "pressure" \in Kinds
  /\ Expiring(k)

-----------------------------------------------------------------------------
(* One bo.                                                                   *)

\* Only the membership of the bo itself in the flushing list matters.
LEMMA GoodFlushing ==
  ASSUME NEW o, NEW b, NEW O, NEW nx, NEW F, NEW G, b \in F <=> b \in G,
         Good(o, b, O, nx, F)
  PROVE  Good(o, b, O, nx, G)
  BY DEF Good, Fine, Flushing, Kept

\* A struct that is not in use belongs to nobody.
LEMMA FreedGood ==
  ASSUME NEW b, NEW O, NEW nx, Numbered(O, nx), NEW F, b \notin F
  PROVE  Good(Freed, b, O, nx, F)
<1>1. Freed \in BoState BY FreedSound DEF SoundBo
<1> QED BY <1>1 DEF Freed, Good, Fine, Attributes, Listed, Booked, Flushing, Kept, Numbered, NoRq, Foreign, Recyclable

\* An idle bo that no request and no list has yet: it is released or destroyed.
Loose(o) ==
  /\ o \in BoState /\ Attributes(o)
  /\ o.rq = NoRq /\ ~o.needs_flush /\ ~o.exec /\ ~o.write
  /\ o.batch => o.refcnt > 0 /\ Recyclable(o)

\* A loose bo that somebody holds.
LEMMA HeldLooseGood ==
  ASSUME NEW o, Loose(o), o.refcnt > 0, o.list = "none",
         NEW b, NEW O, NEW nx, Numbered(O, nx), NEW F, b \notin F
  PROVE  Good(o, b, O, nx, F)
  BY DEF Loose, Good, Fine, Listed, Booked, Flushing, Kept, Numbered, NoRq, Foreign

\* kgem_bo_move_to_snoop of an idle bo.
LEMMA MoveToSnoopGood ==
  ASSUME NEW o, Loose(o), o.refcnt = 0, o.snoop, ~o.prime,
         NEW b, NEW O, NEW nx, Numbered(O, nx), NEW F, b \notin F
  PROVE  Good(kgem_bo_move_to_snoop(b, o), b, O, nx, F)
<1> DEFINE p == [o EXCEPT !.list = "snoop"]
<1>1. p \in BoState /\ p.list = "snoop" BY Values DEF Loose, BoState
<1>2. /\ p.refcnt = o.refcnt /\ p.rq = o.rq /\ p.exec = o.exec /\ p.write = o.write
      /\ p.needs_flush = o.needs_flush /\ p.batch = o.batch /\ p.snoop = o.snoop
      /\ p.prime = o.prime /\ p.scanout = o.scanout /\ p.reusable = o.reusable
      /\ p.shared = o.shared
  BY DEF Loose, BoState
<1> HIDE DEF p
<1>3. Attributes(p) BY <1>2 DEF Loose, Attributes
<1>4. Listed(p) BY <1>1, <1>2 DEF Loose, Listed
<1>5. Good(p, b, O, nx, F)
  BY <1>1, <1>2, <1>3, <1>4 DEF Loose, Good, Fine, Booked, Flushing, Kept, Numbered, NoRq, Foreign
<1> QED BY <1>5, FreedGood DEF kgem_bo_move_to_snoop, p

\* kgem_bo_move_to_cache of an idle bo.
LEMMA MoveToCacheGood ==
  ASSUME NEW o, Loose(o), o.refcnt = 0,
         NEW b, NEW O, NEW nx, Numbered(O, nx), NEW F, b \notin F
  PROVE  Good(kgem_bo_move_to_cache(b, o), b, O, nx, F)
<1>1. ASSUME NEW l \in {"scanout", "inactive"},
             ~o.prime, ~o.snoop, l = "scanout" <=> o.scanout, l = "inactive" => o.reusable
      PROVE  Good([o EXCEPT !.list = l], b, O, nx, F)
  <2> DEFINE p == [o EXCEPT !.list = l]
  <2>1. p \in BoState /\ p.list = l BY Values DEF Loose, BoState
  <2>2. /\ p.refcnt = o.refcnt /\ p.rq = o.rq /\ p.exec = o.exec /\ p.write = o.write
        /\ p.needs_flush = o.needs_flush /\ p.batch = o.batch /\ p.snoop = o.snoop
        /\ p.prime = o.prime /\ p.scanout = o.scanout /\ p.reusable = o.reusable
        /\ p.shared = o.shared
    BY DEF Loose, BoState
  <2> HIDE DEF p
  <2>3. Attributes(p) BY <2>2 DEF Loose, Attributes
  <2>4. Listed(p) BY <1>1, <2>1, <2>2 DEF Loose, Listed, Recyclable
  <2>5. Good(p, b, O, nx, F)
    BY <2>1, <2>2, <2>3, <2>4 DEF Loose, Good, Fine, Booked, Flushing, Kept, Numbered, NoRq, Foreign
  <2> QED BY <2>5 DEF p
<1>2. /\ o.prime \in BOOLEAN /\ o.snoop \in BOOLEAN /\ o.scanout \in BOOLEAN
      /\ o.reusable \in BOOLEAN
  BY DEF Loose, BoState
<1> QED BY <1>1, <1>2, FreedGood, MoveToSnoopGood DEF kgem_bo_move_to_cache

\* Release of an idle bo, which a client may still hold.
LEMMA ReleaseGood ==
  ASSUME NEW o, Loose(o), o.refcnt > 0 => o.list = "none",
         NEW b, NEW O, NEW nx, Numbered(O, nx), NEW F, b \notin F
  PROVE  Good(Release(b, o), b, O, nx, F)
<1>1. o.refcnt > 0 \/ o.refcnt = 0 BY DEF Loose, BoState
<1> QED BY <1>1, HeldLooseGood, MoveToCacheGood DEF Release

\* __kgem_bo_clear_busy of a bo that is not in the batch leaves it loose.
LEMMA ClearBusyLoose ==
  ASSUME NEW o, NEW b, NEW O, NEW nx, NEW F, Fine(o, b, O, nx, F), ~o.exec
  PROVE  /\ Loose(__kgem_bo_clear_busy(o))
         /\ __kgem_bo_clear_busy(o).refcnt = o.refcnt /\ __kgem_bo_clear_busy(o).list = o.list
         /\ __kgem_bo_clear_busy(o).batch = o.batch
         /\ o.refcnt > 0 => o.list = "none"
<1> DEFINE p == __kgem_bo_clear_busy(o)
<1>1. p \in BoState /\ p.rq = NoRq /\ ~p.needs_flush
  BY Values DEF Fine, BoState, __kgem_bo_clear_busy
<1>2. /\ p.refcnt = o.refcnt /\ p.list = o.list /\ p.exec = o.exec /\ p.write = o.write
      /\ p.batch = o.batch /\ p.snoop = o.snoop
      /\ p.prime = o.prime /\ p.scanout = o.scanout /\ p.reusable = o.reusable
      /\ p.shared = o.shared
  BY DEF Fine, BoState, __kgem_bo_clear_busy
<1> HIDE DEF p
<1>3. Attributes(p) BY <1>2 DEF Fine, Attributes
<1>4. Loose(p) BY <1>1, <1>2, <1>3 DEF Loose, Fine, Booked, Recyclable
<1>5. o.refcnt > 0 => o.list = "none" BY DEF Fine, Listed
<1> QED BY <1>2, <1>4, <1>5 DEF p

\* What __kgem_retire_rq leaves of a buffer of a request it retires.
LEMMA RetireBufferGood ==
  ASSUME NEW k, NEW g, NEW b, NEW O, NEW nx, Numbered(O, nx), NEW F,
         Good(k.bo[b], b, O, nx, F), NEW R \in SUBSET O, k.bo[b].rq \in R,
         NEW G, b \in G <=> ~k.bo[b].batch /\ Flushes(k, g, b)
  PROVE  Good(RetireBuffer(k, g, b), b, O \ R, nx, G)
<1> DEFINE o == k.bo[b]
           idle == [o EXCEPT !.rq = NoRq, !.needs_flush = FALSE, !.domain = "none"]
<1>1. /\ o \in BoState /\ Attributes(o) /\ Listed(o) /\ ~o.exec /\ ~o.write
      /\ o.batch => o.refcnt > 0 /\ Recyclable(o)
      /\ o.list \notin {"inactive", "snoop", "freed"}
  BY DEF Good, Fine, Booked, Listed, Numbered, NoRq
<1>2. Numbered(O \ R, nx) BY DEF Numbered
<1> HIDE DEF o
<1>3. idle \in BoState /\ idle.rq = NoRq /\ ~idle.needs_flush
  BY <1>1, Values DEF BoState
<1>4. /\ idle.refcnt = o.refcnt /\ idle.list = o.list /\ idle.exec = o.exec
      /\ idle.write = o.write /\ idle.batch = o.batch /\ idle.snoop = o.snoop
      /\ idle.prime = o.prime /\ idle.scanout = o.scanout /\ idle.reusable = o.reusable
      /\ idle.shared = o.shared
  BY <1>1 DEF BoState
<1> HIDE DEF idle
<1>5. Attributes(idle) /\ Loose(idle)
  BY <1>1, <1>3, <1>4 DEF Attributes, Loose, Recyclable
<1>6. o.refcnt > 0 => o.list = "none" BY <1>1 DEF Listed
<1>7. CASE o.batch
  <2>1. b \notin G BY <1>7 DEF o
  <2>2. ASSUME o.refcnt = 1
        PROVE  Good([idle EXCEPT !.refcnt = 0, !.batch = FALSE, !.list = "inactive"], b, O \ R, nx, G)
    <3> DEFINE p == [idle EXCEPT !.refcnt = 0, !.batch = FALSE, !.list = "inactive"]
    <3>1. p \in BoState /\ p.refcnt = 0 /\ ~p.batch /\ p.list = "inactive"
      BY <1>3, Values DEF BoState
    <3>2. /\ p.rq = NoRq /\ p.needs_flush = idle.needs_flush /\ p.exec = idle.exec
          /\ p.write = idle.write /\ p.snoop = idle.snoop
          /\ p.prime = idle.prime /\ p.scanout = idle.scanout /\ p.reusable = idle.reusable
          /\ p.shared = idle.shared
      BY <1>3 DEF BoState
    <3> HIDE DEF p
    <3>3. Attributes(p) BY <1>5, <3>2 DEF Attributes
    <3>4. Recyclable(p) BY <1>1, <1>4, <1>7, <3>2 DEF Recyclable
    <3>5. Good(p, b, O \ R, nx, G)
      BY <1>2, <1>3, <1>5, <2>1, <3>1, <3>2, <3>3, <3>4
      DEF Loose, Good, Fine, Listed, Booked, Flushing, Kept, Numbered, NoRq, Foreign
    <3> QED BY <3>5 DEF p
  <2>3. ASSUME o.refcnt # 1
        PROVE  Good([idle EXCEPT !.refcnt = @ - 1, !.batch = FALSE], b, O \ R, nx, G)
    <3> DEFINE p == [idle EXCEPT !.refcnt = @ - 1, !.batch = FALSE]
    <3>0. idle.refcnt - 1 \in Nat /\ idle.refcnt - 1 > 0
      BY <1>1, <1>3, <1>4, <1>7, <2>3 DEF BoState
    <3>1. p \in BoState /\ p.refcnt = idle.refcnt - 1 /\ ~p.batch
      BY <1>3, <3>0 DEF BoState
    <3>2. /\ p.rq = NoRq /\ p.needs_flush = idle.needs_flush /\ p.exec = idle.exec
          /\ p.write = idle.write /\ p.snoop = idle.snoop /\ p.list = idle.list
          /\ p.prime = idle.prime /\ p.scanout = idle.scanout /\ p.reusable = idle.reusable
          /\ p.shared = idle.shared
      BY <1>3 DEF BoState
    <3> HIDE DEF p
    <3>3. Attributes(p) BY <1>5, <3>2 DEF Attributes
    <3>4. p.list = "none" BY <1>1, <1>4, <1>6, <1>7, <3>2
    <3>5. Loose(p) BY <1>5, <3>1, <3>2, <3>3 DEF Loose
    <3>6. Good(p, b, O \ R, nx, G) BY <1>2, <2>1, <3>0, <3>1, <3>4, <3>5, HeldLooseGood
    <3> QED BY <3>6 DEF p
  <2> QED BY <1>7, <2>2, <2>3 DEF RetireBuffer, o, idle
<1>8. CASE ~o.batch /\ Flushes(k, g, b)
  <2> DEFINE p == [o EXCEPT !.rq = Foreign, !.needs_flush = Written(g, b)]
  <2>1. Written(g, b) \in BOOLEAN BY DEF Written
  <2>2. p \in BoState /\ p.rq = Foreign BY <1>1, <2>1, Values DEF BoState
  <2>3. /\ p.refcnt = o.refcnt /\ p.list = o.list /\ p.exec = o.exec
        /\ p.write = o.write /\ p.batch = o.batch /\ p.snoop = o.snoop
        /\ p.prime = o.prime /\ p.scanout = o.scanout /\ p.reusable = o.reusable
        /\ p.shared = o.shared
    BY <1>1 DEF BoState
  <2> HIDE DEF p
  <2>4. b \in G BY <1>8 DEF o
  <2>5. Attributes(p) BY <1>1, <2>3 DEF Attributes
  <2>6. Listed(p) BY <1>1, <2>2, <2>3 DEF Listed, Recyclable, NoRq, Foreign
  <2>7. Good(p, b, O \ R, nx, G)
    BY <1>1, <1>2, <1>8, <2>2, <2>3, <2>4, <2>5, <2>6
    DEF Good, Fine, Booked, Flushing, Kept, Numbered, NoRq, Foreign
  <2> QED BY <1>8, <2>7 DEF RetireBuffer, o, p
<1>9. CASE ~o.batch /\ ~Flushes(k, g, b)
  <2>1. b \notin G BY <1>9 DEF o
  <2>2. Good(Release(b, idle), b, O \ R, nx, G) BY <1>2, <1>4, <1>5, <1>6, <2>1, ReleaseGood
  <2> QED BY <1>9, <2>2 DEF RetireBuffer, o, idle
<1> QED BY <1>7, <1>8, <1>9

\* Retiring other requests does not concern a bo.
LEMMA FewerRequestsGood ==
  ASSUME NEW o, NEW b, NEW O, NEW nx, Numbered(O, nx), NEW F, Good(o, b, O, nx, F),
         NEW R, o.rq \notin R
  PROVE  Good(o, b, O \ R, nx, F)
  BY DEF Good, Fine, Booked, Kept

\* __kgem_bo_destroy of a bo that lost its last reference.
LEMMA DestroyGood ==
  ASSUME NEW o, NEW b, NEW O, NEW nx, Numbered(O, nx), NEW F, Fine(o, b, O, nx, F),
         o.refcnt = 0, o.list = "none", NEW g, NEW keep
  PROVE  LET p == __kgem_bo_destroy(g, b, o, keep)
         IN Good(p, b, O, nx, IF p.rq = Foreign THEN F ELSE {})
<1> DEFINE idle == IF ~o.exec /\ o.rq # NoRq /\ ~Busy(g, b) THEN __kgem_bo_clear_busy(o) ELSE o
           G(p) == IF p.rq = Foreign THEN F ELSE {}
           K(p) == Good(p, b, O, nx, G(p))
<1>1. /\ o \in BoState /\ Attributes(o) /\ ~o.batch
      /\ o.rq = NoRq /\ ~o.exec => Loose(o)
      /\ o.rq = NoRq => ~o.exec
  BY DEF Fine, Booked, Loose, Numbered, NoRq
<1>2. /\ idle \in BoState /\ Attributes(idle) /\ ~idle.batch /\ idle.refcnt = 0 /\ idle.list = "none"
      /\ idle.prime = o.prime /\ idle.snoop = o.snoop /\ idle.scanout = o.scanout
      /\ idle.reusable = o.reusable
      /\ idle.rq = NoRq => Loose(idle)
      /\ idle.rq # NoRq => idle = o
  <2>1. CASE idle = o BY <1>1, <2>1
  <2>2. CASE idle # o
    <3>1. idle = __kgem_bo_clear_busy(o) /\ ~o.exec BY <2>2
    <3>2. Loose(idle) BY <3>1, ClearBusyLoose
    <3>3. /\ idle.refcnt = o.refcnt /\ idle.list = o.list /\ idle.prime = o.prime
          /\ idle.snoop = o.snoop /\ idle.scanout = o.scanout /\ idle.reusable = o.reusable
          /\ idle.rq = NoRq /\ idle.batch = o.batch
      BY <1>1, <3>1 DEF __kgem_bo_clear_busy, BoState
    <3> HIDE DEF idle
    <3> QED BY <1>1, <3>2, <3>3 DEF Loose
  <2> QED BY <2>1, <2>2
<1> HIDE DEF idle
<1>3. K(Freed)
  <2>1. Freed.rq = NoRq /\ NoRq # Foreign BY DEF Freed, NoRq, Foreign
  <2> QED BY <2>1, FreedGood
<1>4. (o.prime \/ ~o.reusable) /\ o.exec => K(o)
  <2> SUFFICES ASSUME o.prime \/ ~o.reusable, o.exec PROVE K(o) OBVIOUS
  <2>1. o.rq = nx BY DEF Fine, Booked
  <2>2. nx # Foreign BY DEF Numbered, Foreign
  <2> QED BY <2>1, <2>2 DEF Good, Fine, Flushing, Kept
<1>5. o.snoop /\ o.reusable /\ ~o.prime /\ idle.rq # NoRq => K(idle)
  BY <1>2 DEF Good, Fine, Flushing, Kept, Booked, Numbered, NoRq, Foreign
<1>6. o.snoop /\ ~o.prime /\ idle.rq = NoRq => K(kgem_bo_move_to_snoop(b, idle))
  <2> SUFFICES ASSUME o.snoop, ~o.prime, idle.rq = NoRq
               PROVE  K(kgem_bo_move_to_snoop(b, idle))
    OBVIOUS
  <2>1. \A G0 : b \notin G0 => Good(kgem_bo_move_to_snoop(b, idle), b, O, nx, G0)
    BY <1>2, MoveToSnoopGood
  <2>2. kgem_bo_move_to_snoop(b, idle).rq = NoRq
    BY <1>2 DEF kgem_bo_move_to_snoop, Freed, BoState
  <2>3. NoRq # Foreign BY DEF NoRq, Foreign
  <2> QED BY <2>1, <2>2, <2>3
<1>7. ASSUME NEW q, q \in {o, idle},
             NEW l \in {"scanout", "active", "inactive"}, ~o.prime,
             l = "scanout" => o.scanout /\ q = o,
             l # "scanout" => Recyclable(o) /\ q = idle,
             l = "active" => idle.rq # NoRq,
             l = "inactive" => idle.rq = NoRq
      PROVE  K([q EXCEPT !.list = l])
  <2> DEFINE p == [q EXCEPT !.list = l]
  <2>1. p \in BoState /\ p.list = l BY <1>1, <1>2, <1>7, Values DEF BoState
  <2>2. /\ p.refcnt = q.refcnt /\ p.rq = q.rq /\ p.exec = q.exec /\ p.write = q.write
        /\ p.needs_flush = q.needs_flush /\ p.batch = q.batch /\ p.snoop = q.snoop
        /\ p.prime = q.prime /\ p.scanout = q.scanout /\ p.reusable = q.reusable
        /\ p.shared = q.shared
    BY <1>1, <1>2, <1>7 DEF BoState
  <2>3. Attributes(q) /\ q.refcnt = 0 /\ ~q.batch BY <1>1, <1>2, <1>7
  <2>4. (q = o /\ q.rq # NoRq) \/ Loose(q) BY <1>1, <1>2, <1>7
  <2>5. q.prime = o.prime /\ q.snoop = o.snoop /\ q.scanout = o.scanout /\ q.reusable = o.reusable
    BY <1>2, <1>7
  <2> HIDE DEF p
  <2>6. Attributes(p) BY <2>2, <2>3 DEF Attributes
  <2>7. Listed(p) BY <1>2, <1>7, <2>1, <2>2, <2>3, <2>5 DEF Listed, Recyclable
  <2>8. Booked(p, O, nx)
    <3>1. CASE q = o BY <2>2, <2>3, <3>1 DEF Fine, Booked
    <3>2. CASE Loose(q) BY <2>2, <2>3, <3>2 DEF Loose, Booked, Numbered, NoRq
    <3> QED BY <2>4, <3>1, <3>2
  <2>9. Flushing(p, b, G(p))
    <3>1. CASE q = o BY <2>2, <3>1 DEF Fine, Flushing
    <3>2. CASE Loose(q) BY <2>2, <3>2 DEF Loose, Flushing, NoRq, Foreign
    <3> QED BY <2>4, <3>1, <3>2
  <2>10. Kept(p, b, O, nx, G(p)) BY <1>7, <2>1 DEF Kept
  <2>11. K(p) BY <2>1, <2>6, <2>7, <2>8, <2>9, <2>10 DEF Good, Fine
  <2> QED BY <2>11 DEF p
<1>8. /\ o.prime \in BOOLEAN /\ o.snoop \in BOOLEAN /\ o.scanout \in BOOLEAN
      /\ o.reusable \in BOOLEAN /\ o.exec \in BOOLEAN
  BY <1>1 DEF BoState
<1>9. o.snoop => ~o.scanout BY <1>1 DEF Attributes
<1> DEFINE p == __kgem_bo_destroy(g, b, o, keep)
<1>10. CASE o.prime
  <2>1. p = IF o.exec THEN o ELSE Freed BY <1>10, <1>8 DEF __kgem_bo_destroy
  <2> QED BY <1>3, <1>4, <1>10, <2>1
<1>11. CASE ~o.prime /\ o.snoop /\ o.reusable
  <2>1. p = IF idle.rq = NoRq THEN kgem_bo_move_to_snoop(b, idle) ELSE idle
    BY <1>11, <1>8 DEF __kgem_bo_destroy, idle
  <2> QED BY <1>5, <1>6, <1>11, <2>1
<1>12. CASE ~o.prime /\ ~(o.snoop /\ o.reusable) /\ o.scanout
  <2>1. p = [o EXCEPT !.list = "scanout"] BY <1>12, <1>8 DEF __kgem_bo_destroy
  <2> QED BY <1>7, <1>12, <2>1
<1>13. CASE ~o.prime /\ ~o.scanout /\ ~o.reusable
  <2>1. p = IF o.exec THEN o ELSE Freed BY <1>13, <1>8 DEF __kgem_bo_destroy
  <2> QED BY <1>3, <1>4, <1>13, <2>1
<1>14. CASE ~o.prime /\ ~o.scanout /\ ~o.snoop /\ o.reusable
  <2>1. p = IF idle.rq # NoRq THEN [idle EXCEPT !.list = "active"]
            ELSE IF ~HasLLC /\ idle.domain = "cpu" /\ ~keep THEN Freed
            ELSE [idle EXCEPT !.list = "inactive"]
    BY <1>14, <1>8 DEF __kgem_bo_destroy, idle
  <2>2. Recyclable(o) BY <1>14 DEF Recyclable
  <2> QED BY <1>3, <1>7, <1>14, <2>1, <2>2
<1> QED BY <1>8, <1>10, <1>11, <1>12, <1>13, <1>14

-----------------------------------------------------------------------------
(* Retiring.                                                                 *)

\* What a state tells of the bo in it.
LEMMA TrackedBo ==
  ASSUME NEW k, Tracked(k), NEW b \in Bo
  PROVE  /\ k.bo[b] \in BoState
         /\ Good(k.bo[b], b, Outstanding(k), k.next, k.flushing)
         /\ Fine(k.bo[b], b, Outstanding(k), k.next, k.flushing)
         /\ Numbered(Outstanding(k), k.next)
  BY DEF Tracked, Good, Fine

\* Update gives the bo new values and keeps on the flushing list who waits there.
LEMMA UpdateFields ==
  ASSUME NEW k \in Kgem, NEW bos \in [Bo -> BoState], NEW S
  PROVE  /\ Update(k, bos, S).bo = bos
         /\ Update(k, bos, S).flushing = {b \in S : bos[b].rq = Foreign}
         /\ Update(k, bos, S).requests = k.requests
         /\ Update(k, bos, S).next = k.next
         /\ Update(k, bos, S).wedged = k.wedged
         /\ Update(k, bos, S).need_expire = k.need_expire
  BY DEF Kgem, Update, StillFlushing

\* A call that changes only bo, their flushing and the expire timer.
LEMMA QuietTracked ==
  ASSUME NEW k, Tracked(k), NEW k1, Sound(k1),
         k1.requests = k.requests, k1.next = k.next, k1.wedged = k.wedged,
         \A b \in Bo : Good(k1.bo[b], b, Outstanding(k), k.next, k1.flushing),
         \A b \in Bo : k.bo[b].batch /\ k.bo[b].rq \in Outstanding(k)
                         => k1.bo[b].batch /\ k1.bo[b].rq = k.bo[b].rq,
         "scanout" \notin Kinds =>
           \A b \in Bo \ Large : k1.bo[b].list = "inactive" => k1.need_expire
  PROVE  Tracked(k1)
<1>1. Outstanding(k1) = Outstanding(k) BY DEF Outstanding
<1>2. ASSUME NEW r \in Outstanding(k) PROVE \E b \in Bo : k1.bo[b].batch /\ k1.bo[b].rq = r
  <2>1. PICK b \in Bo : k.bo[b].batch /\ k.bo[b].rq = r BY DEF Tracked
  <2> QED BY <2>1
<1> QED BY <1>1, <1>2 DEF Tracked, Expiring

\* One bo replaced.
LEMMA OneBoTracked ==
  ASSUME NEW k, Tracked(k), NEW b \in Bo, NEW o,
         Good(o, b, Outstanding(k), k.next, IF o.rq = Foreign THEN k.flushing ELSE {}),
         k.bo[b].batch /\ k.bo[b].rq \in Outstanding(k) => o.batch /\ o.rq = k.bo[b].rq,
         o.list = "inactive" => k.bo[b].list = "inactive"
  PROVE  Tracked(Update(k, [k.bo EXCEPT ![b] = o], k.flushing))
<1> DEFINE bos == [k.bo EXCEPT ![b] = o]
           k1 == Update(k, bos, k.flushing)
<1>1. Sound(k) /\ k \in Kgem /\ k.bo \in [Bo -> BoState] BY DEF Tracked, Sound, Kgem
<1>2. o \in SoundBo BY DEF Good, Fine, Booked, SoundBo, BatchOwned
<1>3. Sound(k1) BY <1>1, <1>2, OneBoSound
<1>4. bos \in [Bo -> BoState] /\ \A c \in Bo : bos[c] = IF c = b THEN o ELSE k.bo[c]
  BY <1>1, <1>2 DEF SoundBo
<1> HIDE DEF bos
<1>5. /\ k1.bo = bos /\ k1.flushing = {c \in k.flushing : bos[c].rq = Foreign}
      /\ k1.requests = k.requests /\ k1.next = k.next /\ k1.wedged = k.wedged
      /\ k1.need_expire = k.need_expire
  BY <1>1, <1>4, UpdateFields
<1> HIDE DEF k1
<1>6. ASSUME NEW c \in Bo
      PROVE  Good(k1.bo[c], c, Outstanding(k), k.next, k1.flushing)
  <2>1. CASE c = b BY <1>4, <1>5, <2>1, GoodFlushing
  <2>2. CASE c # b
    <3>1. Good(k.bo[c], c, Outstanding(k), k.next, k.flushing) BY TrackedBo
    <3>2. c \in k.flushing => k.bo[c].rq = Foreign BY <3>1 DEF Good, Fine, Flushing
    <3> QED BY <1>4, <1>5, <2>2, <3>1, <3>2, GoodFlushing
  <2> QED BY <2>1, <2>2
<1>7. ASSUME "scanout" \notin Kinds, NEW c \in Bo \ Large, k1.bo[c].list = "inactive"
      PROVE  k1.need_expire
  BY <1>4, <1>5, <1>7 DEF Tracked, Expiring
<1>8. Tracked(k1) BY <1>3, <1>4, <1>5, <1>6, <1>7, QuietTracked
<1> QED BY <1>8 DEF k1, bos

\* Freeing bo that are no batch.
LEMMA FreeAllFields ==
  ASSUME NEW k \in Kgem, NEW S
  PROVE  /\ \A b \in Bo : FreeAll(k, S).bo[b] = IF b \in S THEN Freed ELSE k.bo[b]
         /\ FreeAll(k, S).flushing
              = {b \in k.flushing : (IF b \in S THEN Freed ELSE k.bo[b]).rq = Foreign}
         /\ FreeAll(k, S).requests = k.requests
         /\ FreeAll(k, S).next = k.next
         /\ FreeAll(k, S).wedged = k.wedged
         /\ FreeAll(k, S).need_expire = k.need_expire
<1> DEFINE bos == [b \in Bo |-> IF b \in S THEN Freed ELSE k.bo[b]]
<1>1. bos \in [Bo -> BoState] BY FreedSound DEF Kgem, SoundBo
<1>2. k.flushing \subseteq Bo BY DEF Kgem
<1>3. FreeAll(k, S) = Update(k, bos, k.flushing) BY DEF FreeAll
<1>4. \A b \in Bo : bos[b] = IF b \in S THEN Freed ELSE k.bo[b] OBVIOUS
<1> HIDE DEF bos
<1> QED BY <1>1, <1>2, <1>3, <1>4, UpdateFields

\* Freeing what a cache holds.
LEMMA FreeAllTracked ==
  ASSUME NEW k, Tracked(k), NEW S, \A b \in Bo \cap S : ~k.bo[b].batch
  PROVE  Tracked(FreeAll(k, S))
<1> DEFINE k1 == FreeAll(k, S)
<1>1. Sound(k) /\ k \in Kgem BY DEF Tracked, Sound
<1>2. Sound(k1) BY <1>1, FreeAllSound
<1>3. /\ \A b \in Bo : k1.bo[b] = IF b \in S THEN Freed ELSE k.bo[b]
      /\ k1.flushing = {b \in k.flushing : (IF b \in S THEN Freed ELSE k.bo[b]).rq = Foreign}
      /\ k1.requests = k.requests /\ k1.next = k.next /\ k1.wedged = k.wedged
      /\ k1.need_expire = k.need_expire
  BY <1>1, FreeAllFields
<1> HIDE DEF k1
<1>4. Freed.rq # Foreign /\ Freed.list # "inactive" BY DEF Freed, NoRq, Foreign
<1>5. ASSUME NEW b \in Bo
      PROVE  Good(k1.bo[b], b, Outstanding(k), k.next, k1.flushing)
  <2>1. CASE b \in S
    <3>1. b \notin k1.flushing BY <1>3, <1>4, <2>1
    <3> QED BY <1>3, <2>1, <3>1, FreedGood, TrackedBo
  <2>2. CASE b \notin S
    <3>1. Good(k.bo[b], b, Outstanding(k), k.next, k.flushing) BY TrackedBo
    <3>2. b \in k.flushing => k.bo[b].rq = Foreign BY <3>1 DEF Good, Fine, Flushing
    <3> QED BY <1>3, <2>2, <3>1, <3>2, GoodFlushing
  <2> QED BY <2>1, <2>2
<1>6. "scanout" \notin Kinds =>
        \A b \in Bo \ Large : k1.bo[b].list = "inactive" => k1.need_expire
  BY <1>3, <1>4 DEF Tracked, Expiring
<1>7. Tracked(k1) BY <1>2, <1>3, <1>5, <1>6, QuietTracked
<1> QED BY <1>7 DEF k1

\* The buffers of the requests R that go to the flushing list.
RetireFlushes(k, g, R) == {b \in Buffers(k, R) : ~k.bo[b].batch /\ Flushes(k, g, b)}

\* The fields that __kgem_retire_rq assigns, in its result k1.
Retired(k, g, R, k1) ==
  /\ \A b \in Bo : k1.bo[b] = IF b \in Buffers(k, R) THEN RetireBuffer(k, g, b) ELSE k.bo[b]
  /\ k1.flushing = k.flushing \cup RetireFlushes(k, g, R)
  /\ k1.requests = [n \in Ring |-> k.requests[n] \ R]
  /\ Outstanding(k1) = Outstanding(k) \ R
  /\ k1.next = k.next /\ (k1.wedged <=> k.wedged)
  /\ k.need_expire => k1.need_expire
  /\ \A b \in Buffers(k, R) \ RetireFlushes(k, g, R) :
       k1.bo[b].refcnt = 0 /\ k1.bo[b].list = "inactive" => k1.need_expire

\* They are these.
LEMMA RetireRqFields ==
  ASSUME NEW k, Sound(k), NEW g \in Gpu, NEW R
  PROVE  Retired(k, g, R, __kgem_retire_rq(k, g, R))
<1> DEFINE k1 == __kgem_retire_rq(k, g, R)
           S == Buffers(k, R)
           F == RetireFlushes(k, g, R)
           bos == [b \in Bo |-> IF b \in S THEN RetireBuffer(k, g, b) ELSE k.bo[b]]
           unref == {b \in S \ F : bos[b].refcnt = 0}
<1>1. k \in Kgem BY DEF Sound
<1>2. k1 = [k EXCEPT !.bo = bos, !.flushing = @ \cup F,
                     !.requests = [n \in Ring |-> @[n] \ R],
                     !.fence = [n \in Ring |-> IF @[n] \in R THEN NoFence ELSE @[n]],
                     !.need_retire = @ \/ F # {},
                     !.need_expire = @ \/ Cached(unref, bos)]
  BY DEF __kgem_retire_rq, RetireFlushes
<1>3. \A b \in Bo : bos[b] = IF b \in S THEN RetireBuffer(k, g, b) ELSE k.bo[b] OBVIOUS
<1> HIDE DEF bos, S, F, k1
<1>4. /\ k1.bo = bos /\ k1.flushing = k.flushing \cup F
      /\ k1.requests = [n \in Ring |-> k.requests[n] \ R]
      /\ k1.next = k.next /\ (k1.wedged <=> k.wedged)
  BY <1>1, <1>2 DEF Kgem
<1>5. k1.need_expire <=> k.need_expire \/ Cached(unref, bos)
  BY <1>1, <1>2 DEF Kgem
<1>6. Outstanding(k1) = Outstanding(k) \ R BY <1>4 DEF Outstanding
<1>7. \A b \in S \ F : k1.bo[b].refcnt = 0 /\ k1.bo[b].list = "inactive" => k1.need_expire
  BY <1>4, <1>5 DEF Cached
<1> QED BY <1>3, <1>4, <1>5, <1>6, <1>7 DEF Retired, S, F, k1

\* Retiring requests: each of their buffers is kept by somebody afterwards.
LEMMA RetireRqTracked ==
  ASSUME NEW k, Tracked(k), NEW g \in Gpu, NEW R \in SUBSET Outstanding(k)
  PROVE  Tracked(__kgem_retire_rq(k, g, R))
<1> DEFINE k1 == __kgem_retire_rq(k, g, R)
           S == Buffers(k, R)
           F == RetireFlushes(k, g, R)
           O == Outstanding(k)
<1>1. Sound(k) /\ Numbered(O, k.next) BY DEF Tracked
<1>2. Sound(k1) BY <1>1, RetireRqSound
<1>r. Retired(k, g, R, k1) BY <1>1, RetireRqFields
<1>3. /\ \A b \in Bo : k1.bo[b] = IF b \in S THEN RetireBuffer(k, g, b) ELSE k.bo[b]
      /\ k1.flushing = k.flushing \cup F
      /\ Outstanding(k1) = O \ R
      /\ k1.next = k.next /\ (k1.wedged <=> k.wedged)
      /\ k.need_expire => k1.need_expire
      /\ \A b \in S \ F : k1.bo[b].refcnt = 0 /\ k1.bo[b].list = "inactive" => k1.need_expire
  BY <1>r DEF Retired
<1>4. \A b \in Bo : b \in S <=> k.bo[b].rq \in R BY DEF Buffers
<1>5. \A b \in Bo : b \in F <=> b \in S /\ ~k.bo[b].batch /\ Flushes(k, g, b)
  BY DEF RetireFlushes, Buffers
<1> HIDE DEF S, F
<1>6. ASSUME NEW b \in Bo
      PROVE  Good(k1.bo[b], b, O \ R, k.next, k1.flushing)
  <2>0. Good(k.bo[b], b, O, k.next, k.flushing) BY TrackedBo
  <2>1. CASE b \in S
    <3>1. k.bo[b].rq \in R BY <1>4, <2>1
    <3>2. b \notin k.flushing BY <1>1, <2>0, <3>1 DEF Good, Fine, Flushing, Numbered, Foreign
    <3>3. b \in k1.flushing <=> ~k.bo[b].batch /\ Flushes(k, g, b) BY <1>3, <1>5, <2>1, <3>2
    <3>4. Good(RetireBuffer(k, g, b), b, O \ R, k.next, k1.flushing)
      BY <1>1, <2>0, <3>1, <3>3, RetireBufferGood
    <3> QED BY <1>3, <2>1, <3>4
  <2>2. CASE b \notin S
    <3>1. k.bo[b].rq \notin R BY <1>4, <2>2
    <3>2. b \in k1.flushing <=> b \in k.flushing BY <1>3, <1>5, <2>2
    <3>3. Good(k.bo[b], b, O \ R, k.next, k.flushing) BY <1>1, <2>0, <3>1, FewerRequestsGood
    <3> QED BY <1>3, <2>2, <3>2, <3>3, GoodFlushing
  <2> QED BY <2>1, <2>2
<1>7. ASSUME NEW r \in O \ R PROVE \E b \in Bo : k1.bo[b].batch /\ k1.bo[b].rq = r
  <2>1. PICK b \in Bo : k.bo[b].batch /\ k.bo[b].rq = r BY DEF Tracked
  <2>2. k1.bo[b] = k.bo[b] BY <1>3, <1>4, <2>1
  <2> QED BY <2>1, <2>2
<1>8. ASSUME "scanout" \notin Kinds, NEW b \in Bo \ Large, k1.bo[b].list = "inactive"
      PROVE  k1.need_expire
  <2>1. CASE b \in S
    <3>1. k1.bo[b].refcnt = 0 /\ k1.bo[b].rq = NoRq BY <1>6, <1>8 DEF Good, Fine, Listed
    <3>2. b \notin k1.flushing BY <1>6, <3>1 DEF Good, Fine, Flushing, NoRq, Foreign
    <3> QED BY <1>3, <1>8, <2>1, <3>1, <3>2
  <2>2. CASE b \notin S BY <1>3, <1>8, <2>2 DEF Tracked, Expiring
  <2> QED BY <2>1, <2>2
<1>9. Numbered(O \ R, k.next) BY <1>1 DEF Numbered
<1>10. k1.wedged => "pressure" \in Kinds BY <1>3 DEF Tracked
<1> HIDE DEF O
<1>11. Tracked(k1) BY <1>2, <1>3, <1>6, <1>7, <1>8, <1>9, <1>10 DEF Tracked, Expiring
<1> QED BY <1>11 DEF k1

\* Only these fields of struct kgem matter.
LEMMA SameTracked ==
  ASSUME NEW k, Tracked(k), NEW k1, Sound(k1),
         k1.bo = k.bo, k1.requests = k.requests, k1.flushing = k.flushing,
         k1.next = k.next, k1.wedged = k.wedged, k.need_expire => k1.need_expire
  PROVE  Tracked(k1)
<1>1. Outstanding(k1) = Outstanding(k) BY DEF Outstanding
<1> QED BY <1>1 DEF Tracked, Expiring

\* The bo of F wait for nothing but themselves, if at all.
Alone(k, F) == \A b \in Bo \cap F : k.bo[b].rq \in {NoRq, Foreign}

\* A bo alone is in no batch and is no batch of an outstanding request.
LEMMA AloneBo ==
  ASSUME NEW k, Tracked(k), NEW b \in Bo, k.bo[b].rq \in {NoRq, Foreign}
  PROVE  ~k.bo[b].exec /\ k.bo[b].rq \notin Outstanding(k)
<1>1. Numbered(Outstanding(k), k.next) /\ Fine(k.bo[b], b, Outstanding(k), k.next, k.flushing)
  BY TrackedBo
<1>2. NoRq \notin Nat \ {0} /\ Foreign \notin Nat \ {0} BY DEF NoRq, Foreign
<1> QED BY <1>1, <1>2 DEF Fine, Booked, Numbered

\* Retiring bo of the flushing list: each goes to its cache.
LEMMA RetireFlushingTracked ==
  ASSUME NEW k, Tracked(k), NEW F, Alone(k, F)
  PROVE  Tracked(kgem_retire__flushing(k, F))
<1> DEFINE bos == [b \in Bo |-> IF b \in F THEN Release(b, __kgem_bo_clear_busy(k.bo[b]))
                                           ELSE k.bo[b]]
           k0 == Update(k, bos, k.flushing)
           e == k0.need_expire \/ Cached({b \in F : bos[b].refcnt = 0}, bos)
           k1 == [k0 EXCEPT !.need_expire = e]
           O == Outstanding(k)
<1>1. Sound(k) /\ k \in Kgem /\ k.flushing \subseteq Bo /\ Numbered(O, k.next)
  BY DEF Tracked, Sound, Kgem
<1>2. Sound(k1) BY <1>1, RetireFlushingSound DEF kgem_retire__flushing
<1>3. bos \in [Bo -> SoundBo] BY <1>1, SoundBos, ClearBusySound, ReleaseSound
<1>4. bos \in [Bo -> BoState] /\ Sound(k0) BY <1>1, <1>3, UpdateSound DEF SoundBo
<1>5. \A b \in Bo : bos[b] = IF b \in F THEN Release(b, __kgem_bo_clear_busy(k.bo[b])) ELSE k.bo[b]
  OBVIOUS
<1>6. ASSUME NEW b \in Bo \cap F, NEW G, b \notin G PROVE Good(bos[b], b, O, k.next, G)
  <2>1. Fine(k.bo[b], b, O, k.next, k.flushing) BY TrackedBo
  <2>2. ~k.bo[b].exec BY <1>6, AloneBo DEF Alone
  <2> HIDE DEF bos, O
  <2>3. /\ Loose(__kgem_bo_clear_busy(k.bo[b]))
        /\ __kgem_bo_clear_busy(k.bo[b]).refcnt > 0 => __kgem_bo_clear_busy(k.bo[b]).list = "none"
    BY <2>1, <2>2, ClearBusyLoose
  <2>4. Good(Release(b, __kgem_bo_clear_busy(k.bo[b])), b, O, k.next, G)
    BY <1>1, <1>6, <2>3, ReleaseGood
  <2> QED BY <1>5, <2>4
<1> HIDE DEF bos
<1>7. /\ k0.bo = bos /\ k0.flushing = {b \in k.flushing : bos[b].rq = Foreign}
      /\ k0.requests = k.requests /\ k0.next = k.next /\ k0.wedged = k.wedged
      /\ k0.need_expire = k.need_expire
  BY <1>1, <1>4, UpdateFields
<1>8. e \in BOOLEAN BY <1>4 DEF Cached, Sound, Kgem
<1>9. e <=> k.need_expire \/ Cached({b \in F : bos[b].refcnt = 0}, bos) BY <1>7
<1> HIDE DEF k0, e
<1>10. /\ k1.bo = bos /\ k1.flushing = {b \in k.flushing : bos[b].rq = Foreign}
       /\ k1.requests = k.requests /\ k1.next = k.next /\ k1.wedged = k.wedged
       /\ k1.need_expire = e
  BY <1>4, <1>7, <1>8 DEF Sound, Kgem
<1> HIDE DEF k1
<1>11. ASSUME NEW b \in Bo PROVE Good(k1.bo[b], b, O, k.next, k1.flushing)
  <2>1. CASE b \in F
    <3>1. Good(bos[b], b, O, k.next, {}) BY <1>6, <2>1
    <3>2. b \notin k1.flushing
      <4>1. Release(b, __kgem_bo_clear_busy(k.bo[b])).rq = NoRq
        BY <1>1 DEF Sound, Kgem, BoState, Release, __kgem_bo_clear_busy, kgem_bo_move_to_cache,
                    kgem_bo_move_to_snoop, Freed
      <4> QED BY <1>5, <1>10, <2>1, <4>1 DEF NoRq, Foreign
    <3> QED BY <1>6, <1>10, <2>1, <3>2
  <2>2. CASE b \notin F
    <3>1. Good(k.bo[b], b, O, k.next, k.flushing) BY TrackedBo
    <3>2. b \in k.flushing => k.bo[b].rq = Foreign BY <3>1 DEF Good, Fine, Flushing
    <3>3. bos[b] = k.bo[b] BY <1>5, <2>2
    <3>4. b \in k1.flushing <=> b \in k.flushing BY <1>10, <3>2, <3>3
    <3> QED BY <1>10, <3>1, <3>3, <3>4, GoodFlushing
  <2> QED BY <2>1, <2>2
<1>12. ASSUME NEW b \in Bo, k.bo[b].batch, k.bo[b].rq \in Outstanding(k) PROVE k1.bo[b] = k.bo[b]
  BY <1>5, <1>10, <1>12, AloneBo DEF Alone
<1>13. ASSUME "scanout" \notin Kinds, NEW b \in Bo \ Large, k1.bo[b].list = "inactive"
       PROVE  k1.need_expire
  <2>1. CASE b \in F
    <3>1. bos[b].refcnt = 0 BY <1>10, <1>11, <1>13 DEF Good, Fine, Listed
    <3> QED BY <1>9, <1>10, <1>13, <2>1, <3>1 DEF Cached
  <2>2. CASE b \notin F
    BY <1>5, <1>9, <1>10, <1>13, <2>2 DEF Tracked, Expiring
  <2> QED BY <2>1, <2>2
<1>14. Tracked(k1) BY <1>2, <1>10, <1>11, <1>12, <1>13, QuietTracked DEF O
<1> QED BY <1>14 DEF k1, k0, e, bos, kgem_retire__flushing

\* Retiring the complete requests of both rings.
LEMMA RetireRequestsTracked ==
  ASSUME NEW k, Tracked(k), NEW g \in Gpu PROVE Tracked(kgem_retire__requests(k, g))
<1>1. UNION {Retirable(k, g, n) : n \in Ring} \subseteq Outstanding(k) BY DEF Retirable, Outstanding
<1> QED BY <1>1, RetireRqTracked DEF kgem_retire__requests

\* kgem_retire.
LEMMA RetireTracked ==
  ASSUME NEW k, Tracked(k), NEW g \in Gpu, NEW F, Alone(k, F)
  PROVE  Tracked(kgem_retire(k, g, F))
<1> DEFINE k1 == kgem_retire__requests(kgem_retire__flushing(k, F), g)
           a == k1.flushing # {} \/ Outstanding(k1) # {}
           k2 == [k1 EXCEPT !.need_retire = a]
<1>1. Tracked(k1) BY RetireFlushingTracked, RetireRequestsTracked
<1>2. Sound(k2) BY RetireSound DEF kgem_retire, Tracked
<1> HIDE DEF k1
<1>3. /\ k2.bo = k1.bo /\ k2.requests = k1.requests /\ k2.flushing = k1.flushing
      /\ k2.next = k1.next /\ k2.wedged = k1.wedged /\ k2.need_expire = k1.need_expire
  BY <1>1 DEF Tracked, Sound, Kgem
<1> HIDE DEF k2
<1>4. Tracked(k2) BY <1>1, <1>2, <1>3, SameTracked
<1> QED BY <1>4 DEF kgem_retire, k1, k2

\* Asking whether a ring is idle retires requests of it.
LEMMA RingIsIdleTracked ==
  ASSUME NEW k, Tracked(k), NEW g \in Gpu, NEW n \in Ring, k.requests[n] # {}
  PROVE  Tracked(__kgem_ring_is_idle(k, g, n))
<1> DEFINE fence == k.fence[n]
           R == {r \in k.requests[n] : r <= fence}
           k1 == __kgem_retire_rq(k, g, R)
           k2 == [k1 EXCEPT !.fence[n] = Newest(k, n)]
           K == __kgem_ring_is_idle(k, g, n)
<1>1. Sound(K) BY RingIsIdleSound DEF Tracked
<1>2. R \subseteq Outstanding(k) /\ k.requests[n] \subseteq Outstanding(k) BY DEF Outstanding
<1>3. K = k \/ K = __kgem_retire_rq(k, g, k.requests[n]) \/ K = k2
  <2> (fence # NoFence /\ ~Done(k, g, fence)) \/ RingIdle(k, g, n)
        \/ ((fence # NoFence => Done(k, g, fence)) /\ ~RingIdle(k, g, n))
    OBVIOUS
  <2>1. CASE fence # NoFence /\ ~Done(k, g, fence)
    BY <2>1 DEF __kgem_ring_is_idle, RingIdle
  <2>2. CASE RingIdle(k, g, n) BY <2>2 DEF __kgem_ring_is_idle, RingIdle
  <2>3. CASE (fence # NoFence => Done(k, g, fence)) /\ ~RingIdle(k, g, n)
    BY <2>3 DEF __kgem_ring_is_idle
  <2> QED BY <2>1, <2>2, <2>3
<1>4. Tracked(k1) BY <1>2, RetireRqTracked
<1>5. Tracked(__kgem_retire_rq(k, g, k.requests[n])) BY <1>2, RetireRqTracked
<1> HIDE DEF k1, K
<1>6. CASE K = k2
  <2>1. /\ k2.bo = k1.bo /\ k2.requests = k1.requests /\ k2.flushing = k1.flushing
        /\ k2.next = k1.next /\ k2.wedged = k1.wedged /\ k2.need_expire = k1.need_expire
    BY <1>4 DEF Tracked, Sound, Kgem
  <2> HIDE DEF k2
  <2>2. Tracked(k2) BY <1>1, <1>4, <1>6, <2>1, SameTracked
  <2> QED BY <1>6, <2>2 DEF K
<1> QED BY <1>3, <1>5, <1>6 DEF K

\* The other ring is asked first.
LEMMA KgemRingIsIdleTracked ==
  ASSUME NEW k, Tracked(k), NEW g \in Gpu, NEW n \in Ring, NEW semaphore \in BOOLEAN
  PROVE  Tracked(kgem_ring_is_idle(k, g, n, semaphore))
<1> DEFINE other == semaphore /\ k.requests[1 - n] # {}
           k1 == IF other THEN __kgem_ring_is_idle(k, g, 1 - n) ELSE k
<1>1. 1 - n \in Ring BY DEF Ring
<1>2. Tracked(k1) BY <1>1, RingIsIdleTracked
<1>3. k1.requests[n] # {} => Tracked(__kgem_ring_is_idle(k1, g, n)) BY <1>2, RingIsIdleTracked
<1> QED BY <1>2, <1>3 DEF kgem_ring_is_idle

\* __kgem_bo_clear_busy of a bo that somebody holds.
LEMMA ClearHeldTracked ==
  ASSUME NEW k, Tracked(k), NEW b \in Bo, k.bo[b].refcnt > 0, ~k.bo[b].exec,
         k.bo[b].rq \notin Outstanding(k)
  PROVE  Tracked(Update(k, [k.bo EXCEPT ![b] = __kgem_bo_clear_busy(@)], k.flushing))
<1> DEFINE o == k.bo[b]
           p == __kgem_bo_clear_busy(o)
<1>1. Fine(o, b, Outstanding(k), k.next, k.flushing) /\ Numbered(Outstanding(k), k.next)
  BY TrackedBo
<1> HIDE DEF o, p
<1>2. /\ Loose(p) /\ p.refcnt = o.refcnt /\ p.list = "none" /\ p.rq = NoRq
  BY <1>1, ClearBusyLoose DEF o, p, Loose
<1>3. NoRq # Foreign BY DEF NoRq, Foreign
<1>4. Good(p, b, Outstanding(k), k.next, {}) BY <1>1, <1>2, HeldLooseGood DEF o
<1>5. Tracked(Update(k, [k.bo EXCEPT ![b] = p], k.flushing))
  BY <1>2, <1>3, <1>4, OneBoTracked DEF o
<1>6. [k.bo EXCEPT ![b] = p] = [k.bo EXCEPT ![b] = __kgem_bo_clear_busy(@)] BY DEF o, p
<1> QED BY <1>5, <1>6

\* Retiring up to the request of a bo that somebody holds.
LEMMA BoRetireTracked ==
  ASSUME NEW k, Tracked(k), NEW g \in Gpu, NEW b \in Bo, k.bo[b].refcnt > 0
  PROVE  Tracked(kgem_bo_retire(k, g, b))
<1> DEFINE R == {r \in Outstanding(k) : /\ RingOf(k, r) = RingOf(k, k.bo[b].rq)
                                        /\ r <= k.bo[b].rq}
<1>1. Tracked(__kgem_retire_rq(k, g, R)) BY RetireRqTracked
<1>2. CASE k.bo[b].rq = Foreign
  <2>1. ~k.bo[b].exec /\ k.bo[b].rq \notin Outstanding(k) BY <1>2, AloneBo
  <2>2. Tracked(Update(k, [k.bo EXCEPT ![b] = __kgem_bo_clear_busy(@)], k.flushing))
    BY <2>1, ClearHeldTracked
  <2> QED BY <1>2, <2>2 DEF kgem_bo_retire, __kgem_retire_requests_upto
<1>3. CASE k.bo[b].rq # Foreign
  BY <1>1, <1>3 DEF kgem_bo_retire, __kgem_retire_requests_upto
<1> QED BY <1>2, <1>3

\* A query may retire the request of a bo.
LEMMA BoIsBusyTracked ==
  ASSUME NEW k, Tracked(k), NEW g \in Gpu, NEW b \in Bo, k.bo[b].refcnt > 0
  PROVE  Tracked(__kgem_bo_is_busy(k, g, b))
  BY BoRetireTracked DEF __kgem_bo_is_busy

-----------------------------------------------------------------------------
(* What a retirement leaves as it was.                                       *)

\* A client owns a reference besides the one that a request has on its batch bo.
Owned(o) == o.refcnt > IF o.batch THEN 1 ELSE 0

\* A bo in the batch is left alone, owners keep what they own, who waits for no
\* request goes on doing so, a cached framebuffer stays in its cache.
Steady(o, o1) ==
  /\ o.exec => o1 = o
  /\ Owned(o) => Owned(o1)
  /\ o1.batch => o.batch
  /\ o.rq \in {NoRq, Foreign} => o1.rq \in {NoRq, Foreign}
  /\ o.list = "scanout" /\ ~o.exec => o1.list = "scanout" /\ ~o1.exec

\* One call after the other.
LEMMA SteadyTwice ==
  ASSUME NEW o, NEW o1, NEW o2, Steady(o, o1), Steady(o1, o2) PROVE Steady(o, o2)
  BY DEF Steady

\* Release of an idle bo.
LEMMA ReleaseSteady ==
  ASSUME NEW o, NEW b, NEW O, NEW nx, NEW F, Fine(o, b, O, nx, F), ~o.exec,
         NEW p, Loose(p), p.refcnt = o.refcnt, p.batch = o.batch, p.list = o.list,
         p.prime = o.prime, p.snoop = o.snoop, p.scanout = o.scanout
  PROVE  Steady(o, Release(b, p)) /\ Release(b, p).rq = NoRq
<1> DEFINE q(l) == [p EXCEPT !.list = l]
<1>1. /\ p.refcnt \in Nat /\ p.prime \in BOOLEAN /\ p.snoop \in BOOLEAN /\ p.scanout \in BOOLEAN
      /\ p.rq = NoRq /\ ~p.exec /\ o.batch \in BOOLEAN
      /\ o.list = "scanout" => o.scanout /\ ~o.prime /\ o.refcnt = 0 /\ ~o.snoop
  BY DEF Loose, BoState, Fine, Listed, Attributes
<1>2. /\ Freed.rq = NoRq /\ ~Freed.batch
      /\ \A l : q(l).rq = NoRq /\ q(l).list = l /\ ~q(l).exec /\ q(l).batch = p.batch
  BY <1>1 DEF Freed, Loose, BoState
<1> HIDE DEF q
<1>3. CASE p.refcnt > 0
  <2>1. Release(b, p) = p BY <1>3 DEF Release
  <2> QED BY <1>1, <1>3, <2>1 DEF Steady, Owned
<1>4. CASE p.refcnt = 0
  <2>1. Release(b, p) = kgem_bo_move_to_cache(b, p) BY <1>4 DEF Release
  <2>2. kgem_bo_move_to_cache(b, p) \in {Freed, q("snoop"), q("scanout"), q("inactive")}
    BY <1>1 DEF kgem_bo_move_to_cache, kgem_bo_move_to_snoop, q
  <2>3. o.list = "scanout" => kgem_bo_move_to_cache(b, p) = q("scanout")
    BY <1>1 DEF kgem_bo_move_to_cache, q
  <2>4. ~Owned(o) BY <1>1, <1>4 DEF Owned
  <2> HIDE DEF Release
  <2> QED BY <1>1, <1>2, <2>1, <2>2, <2>3, <2>4 DEF Steady
<1> QED BY <1>1, <1>3, <1>4

\* What __kgem_retire_rq does with one buffer of a request.
LEMMA RetireBufferSteady ==
  ASSUME NEW k, NEW g, NEW b, NEW O, NEW nx, Numbered(O, nx), NEW F,
         Good(k.bo[b], b, O, nx, F), k.bo[b].rq \in O
  PROVE  Steady(k.bo[b], RetireBuffer(k, g, b))
<1> DEFINE o == k.bo[b]
           idle == [o EXCEPT !.rq = NoRq, !.needs_flush = FALSE, !.domain = "none"]
<1>1. /\ o \in BoState /\ ~o.exec /\ ~o.write /\ Fine(o, b, O, nx, F) /\ o.rq # NoRq
      /\ o.batch => o.refcnt > 0 /\ Recyclable(o)
      /\ o.list = "scanout" => o.scanout /\ ~o.prime /\ o.refcnt = 0 /\ ~o.snoop
      /\ Attributes(o) /\ o.rq # Foreign
  BY DEF Good, Fine, Booked, Listed, Attributes, Numbered, NoRq, Foreign
<1> HIDE DEF o
<1>2. idle \in BoState /\ idle.rq = NoRq /\ ~idle.needs_flush
  BY <1>1, Values DEF BoState
<1>3. /\ idle.refcnt = o.refcnt /\ idle.list = o.list /\ idle.exec = o.exec
      /\ idle.write = o.write /\ idle.batch = o.batch /\ idle.snoop = o.snoop
      /\ idle.prime = o.prime /\ idle.scanout = o.scanout /\ idle.reusable = o.reusable
      /\ idle.shared = o.shared
  BY <1>1 DEF BoState
<1> HIDE DEF idle
<1>4. Loose(idle) BY <1>1, <1>2, <1>3 DEF Loose, Attributes, Recyclable
<1>5. CASE o.batch
  <2>1. CASE o.refcnt = 1
    <3>1. ~Owned(o) /\ o.list # "scanout" BY <1>1, <1>5, <2>1 DEF Owned
    <3> QED BY <1>1, <1>5, <3>1 DEF Steady, o
  <2>2. CASE o.refcnt # 1
    <3> DEFINE p == [idle EXCEPT !.refcnt = @ - 1, !.batch = FALSE]
    <3>1. p.refcnt = o.refcnt - 1 /\ ~p.batch BY <1>2, <1>3 DEF BoState
    <3>2. o.refcnt - 1 > 0 BY <1>1, <1>5, <2>2 DEF BoState
    <3>3. RetireBuffer(k, g, b) = p BY <1>5, <2>2 DEF RetireBuffer, o, idle
    <3>4. o.list # "scanout" BY <1>1, <1>5
    <3> HIDE DEF p
    <3>5. Owned(p) BY <3>1, <3>2 DEF Owned
    <3> QED BY <1>1, <1>5, <3>3, <3>4, <3>5 DEF Steady, o
  <2> QED BY <2>1, <2>2
<1>6. CASE ~o.batch /\ Flushes(k, g, b)
  <2> DEFINE p == [o EXCEPT !.rq = Foreign, !.needs_flush = Written(g, b)]
  <2>1. /\ p.refcnt = o.refcnt /\ p.batch = o.batch /\ p.list = o.list /\ p.exec = o.exec
    BY <1>1 DEF BoState
  <2>2. RetireBuffer(k, g, b) = p BY <1>6 DEF RetireBuffer, o
  <2> HIDE DEF p
  <2> QED BY <1>1, <2>1, <2>2 DEF Steady, Owned, o
<1>7. CASE ~o.batch /\ ~Flushes(k, g, b)
  <2>1. Steady(o, Release(b, idle)) BY <1>1, <1>3, <1>4, ReleaseSteady
  <2> QED BY <1>7, <2>1 DEF RetireBuffer, o, idle
<1> QED BY <1>5, <1>6, <1>7

\* __kgem_retire_rq.
LEMMA RetireRqSteady ==
  ASSUME NEW k, Tracked(k), NEW g \in Gpu, NEW R \in SUBSET Outstanding(k), NEW b \in Bo
  PROVE  Steady(k.bo[b], __kgem_retire_rq(k, g, R).bo[b])
<1> DEFINE k1 == __kgem_retire_rq(k, g, R)
<1>1. Retired(k, g, R, k1) BY RetireRqFields DEF Tracked
<1> HIDE DEF k1
<1>2. k1.bo[b] = IF k.bo[b].rq \in R THEN RetireBuffer(k, g, b) ELSE k.bo[b]
  BY <1>1 DEF Retired, Buffers
<1>3. k.bo[b].rq \in R => Steady(k.bo[b], RetireBuffer(k, g, b))
  BY TrackedBo, RetireBufferSteady
<1>4. Steady(k.bo[b], k.bo[b]) BY DEF Steady
<1>5. Steady(k.bo[b], k1.bo[b]) BY <1>2, <1>3, <1>4
<1> QED BY <1>5 DEF k1

\* The flushing list.
LEMMA RetireFlushingSteady ==
  ASSUME NEW k, Tracked(k), NEW F, Alone(k, F), NEW b \in Bo
  PROVE  /\ Steady(k.bo[b], kgem_retire__flushing(k, F).bo[b])
         /\ kgem_retire__flushing(k, F).requests = k.requests
         /\ kgem_retire__flushing(k, F).next = k.next
         /\ kgem_retire__flushing(k, F).bo[b]
              = IF b \in F THEN Release(b, __kgem_bo_clear_busy(k.bo[b])) ELSE k.bo[b]
<1> DEFINE o1 == IF b \in F THEN Release(b, __kgem_bo_clear_busy(k.bo[b])) ELSE k.bo[b]
<1>1. k \in Kgem BY DEF Tracked, Sound
<1>2. /\ kgem_retire__flushing(k, F).bo[b] = o1
      /\ kgem_retire__flushing(k, F).requests = k.requests
      /\ kgem_retire__flushing(k, F).next = k.next
  BY <1>1 DEF kgem_retire__flushing, Update, Kgem
<1>3. CASE b \in F
  <2>1. Fine(k.bo[b], b, Outstanding(k), k.next, k.flushing) /\ k.bo[b] \in BoState BY TrackedBo
  <2>2. ~k.bo[b].exec BY <1>3, AloneBo DEF Alone
  <2>3. Loose(__kgem_bo_clear_busy(k.bo[b])) BY <2>1, <2>2, ClearBusyLoose
  <2>4. LET p == __kgem_bo_clear_busy(k.bo[b]) o == k.bo[b]
        IN /\ p.refcnt = o.refcnt /\ p.batch = o.batch /\ p.list = o.list
           /\ p.prime = o.prime /\ p.snoop = o.snoop /\ p.scanout = o.scanout
    BY <2>1 DEF BoState, __kgem_bo_clear_busy
  <2>5. Steady(k.bo[b], Release(b, __kgem_bo_clear_busy(k.bo[b])))
    BY <2>1, <2>2, <2>3, <2>4, ReleaseSteady
  <2> QED BY <1>2, <1>3, <2>5
<1>4. CASE b \notin F BY <1>2, <1>4 DEF Steady
<1> QED BY <1>2, <1>3, <1>4

\* kgem_retire.
LEMMA RetireSteady ==
  ASSUME NEW k, Tracked(k), NEW g \in Gpu, NEW F, Alone(k, F)
  PROVE  /\ \A b \in Bo : Steady(k.bo[b], kgem_retire(k, g, F).bo[b])
         /\ kgem_retire(k, g, F).next = k.next
<1> DEFINE k1 == kgem_retire__flushing(k, F)
           R == UNION {Retirable(k1, g, n) : n \in Ring}
           k2 == __kgem_retire_rq(k1, g, R)
           k3 == kgem_retire(k, g, F)
<1>1. Tracked(k1) BY RetireFlushingTracked
<1>2. \A b \in Bo : Steady(k.bo[b], k1.bo[b]) BY RetireFlushingSteady
<1>3. R \subseteq Outstanding(k1) BY DEF Retirable, Outstanding
<1> HIDE DEF k1, R
<1>4. \A b \in Bo : Steady(k1.bo[b], k2.bo[b]) BY <1>1, <1>3, RetireRqSteady
<1>5. k3 = [k2 EXCEPT !.need_retire = k2.flushing # {} \/ Outstanding(k2) # {}]
  BY DEF kgem_retire, kgem_retire__requests, k1, R
<1>6. Sound(k2) BY <1>1, RetireRqSound DEF Tracked
<1> HIDE DEF k2, k3
<1>7. k3.bo = k2.bo BY <1>5, <1>6 DEF Sound, Kgem
<1>8. \A b \in Bo : Steady(k.bo[b], k3.bo[b]) BY <1>2, <1>4, <1>7, SteadyTwice
<1>9. k3.next = k.next BY KeepsNext DEF Tracked, k3
<1> QED BY <1>8, <1>9 DEF k3

-----------------------------------------------------------------------------
(* The caches.                                                               *)

\* What the inactive and the snoop cache hold is idle and belongs to nobody.
LEMMA CachedBo ==
  ASSUME NEW k, Tracked(k), NEW b \in Bo, k.bo[b].list \in {"inactive", "snoop"}
  PROVE  /\ k.bo[b].refcnt = 0 /\ ~k.bo[b].batch /\ ~k.bo[b].exec /\ k.bo[b].rq = NoRq
         /\ ~Owned(k.bo[b])
<1>1. Fine(k.bo[b], b, Outstanding(k), k.next, k.flushing) /\ Numbered(Outstanding(k), k.next)
  BY TrackedBo
<1>2. k.bo[b].refcnt = 0 /\ k.bo[b].rq = NoRq BY <1>1 DEF Fine, Listed
<1>3. ~k.bo[b].batch /\ ~k.bo[b].exec BY <1>1, <1>2 DEF Fine, Booked, Numbered, NoRq
<1> QED BY <1>2, <1>3 DEF Owned

\* Freeing what one of these two caches holds.
LEMMA FreeCachedTracked ==
  ASSUME NEW k, Tracked(k), NEW S, \A b \in Bo \cap S : k.bo[b].list \in {"inactive", "snoop"}
  PROVE  /\ Tracked(FreeAll(k, S))
         /\ \A b \in Bo : Steady(k.bo[b], FreeAll(k, S).bo[b])
         /\ \A b \in Bo : FreeAll(k, S).bo[b] = IF b \in S THEN Freed ELSE k.bo[b]
<1>1. k \in Kgem BY DEF Tracked, Sound
<1>2. \A b \in Bo \cap S : ~k.bo[b].batch BY CachedBo
<1>3. Tracked(FreeAll(k, S)) BY <1>2, FreeAllTracked
<1>4. \A b \in Bo : FreeAll(k, S).bo[b] = IF b \in S THEN Freed ELSE k.bo[b]
  BY <1>1, FreeAllFields
<1>5. ASSUME NEW b \in Bo PROVE Steady(k.bo[b], FreeAll(k, S).bo[b])
  <2>1. CASE b \in S
    <3>1. ~k.bo[b].exec /\ ~Owned(k.bo[b]) /\ k.bo[b].list # "scanout" BY <2>1, CachedBo
    <3>2. Freed.rq = NoRq /\ ~Freed.batch BY DEF Freed
    <3> QED BY <1>4, <2>1, <3>1, <3>2 DEF Steady
  <2>2. CASE b \notin S BY <1>4, <2>2 DEF Steady
  <2> QED BY <2>1, <2>2
<1> QED BY <1>3, <1>4, <1>5

\* The timer's flag can be recomputed.
LEMMA NeedExpireTracked ==
  ASSUME NEW k, Tracked(k), NEW e \in BOOLEAN,
         "scanout" \notin Kinds => \A b \in Bo \ Large : k.bo[b].list = "inactive" => e
  PROVE  Tracked([k EXCEPT !.need_expire = e])
<1> DEFINE k1 == [k EXCEPT !.need_expire = e]
<1>1. Sound(k1) /\ k \in Kgem BY NeedExpireSound DEF Tracked, Sound
<1>2. /\ k1.bo = k.bo /\ k1.requests = k.requests /\ k1.flushing = k.flushing
      /\ k1.next = k.next /\ k1.wedged = k.wedged /\ k1.need_expire = e
  BY <1>1 DEF Kgem
<1> HIDE DEF k1
<1>3. Outstanding(k1) = Outstanding(k) BY <1>2 DEF Outstanding
<1>4. Tracked(k1) BY <1>1, <1>2, <1>3 DEF Tracked, Expiring
<1> QED BY <1>4 DEF k1

\* A framebuffer as kgem_clean_scanout_cache passes it to __kgem_bo_destroy.
Cleaned(o, cached) ==
  [o EXCEPT !.scanout = FALSE, !.list = "none", !.reusable = HasLLC => cached]

\* What becomes of it.
ScanoutCleaned(k, g, b, cached) == __kgem_bo_destroy(g, b, Cleaned(k.bo[b], cached), FALSE)

\* The fields that kgem_clean_scanout_cache assigns, in its result k1.
ScanoutsCleaned(k, g, V, cached, k1) ==
  /\ \A b \in Bo : k1.bo[b] = IF b \in V THEN ScanoutCleaned(k, g, b, cached) ELSE k.bo[b]
  /\ k1.flushing = {b \in k.flushing : k1.bo[b].rq = Foreign}
  /\ k1.requests = k.requests /\ k1.next = k.next /\ k1.wedged = k.wedged
  /\ k.need_expire => k1.need_expire
  /\ \A b \in V : k1.bo[b].list = "inactive" => k1.need_expire

\* They are these.
LEMMA CleanScanoutFields ==
  ASSUME NEW k, Sound(k), NEW g, NEW V \in SUBSET Bo, NEW cached \in BOOLEAN
  PROVE  ScanoutsCleaned(k, g, V, cached, CleanScanout(k, g, V, cached))
<1> DEFINE bos == [b \in Bo |-> IF b \in V
                                THEN ScanoutCleaned(k, g, b, cached)
                                ELSE k.bo[b]]
           k0 == Update(k, bos, k.flushing)
           e == k0.need_expire \/ Cached(V, bos)
           k1 == [k0 EXCEPT !.need_expire = e]
<1>1. k \in Kgem BY DEF Sound
<1>2. ASSUME NEW b \in Bo PROVE Cleaned(k.bo[b], cached) \in SoundBo
  <2> DEFINE o == k.bo[b]
             c == Cleaned(o, cached)
  <2>1. o \in BoState /\ BatchOwned(o) BY DEF Sound, SoundBo
  <2> HIDE DEF o
  <2>2. c \in BoState BY <2>1, Values DEF BoState, Cleaned
  <2>3. c.refcnt = o.refcnt /\ c.batch = o.batch BY <2>1 DEF BoState, Cleaned
  <2>4. BatchOwned(c) BY <2>1, <2>3 DEF BatchOwned
  <2> QED BY <2>2, <2>4 DEF SoundBo, o
<1>3. bos \in [Bo -> SoundBo] BY <1>2, DestroySound, SoundBos DEF ScanoutCleaned
<1>4. bos \in [Bo -> BoState] /\ Sound(k0) BY <1>3, UpdateSound DEF SoundBo
<1>5. \A b \in Bo : bos[b] = IF b \in V
                             THEN ScanoutCleaned(k, g, b, cached)
                             ELSE k.bo[b]
  OBVIOUS
<1>6. CleanScanout(k, g, V, cached) = k1 BY DEF CleanScanout, Cleaned, ScanoutCleaned
<1> HIDE DEF bos
<1>7. /\ k0.bo = bos /\ k0.flushing = {b \in k.flushing : bos[b].rq = Foreign}
      /\ k0.requests = k.requests /\ k0.next = k.next /\ k0.wedged = k.wedged
      /\ k0.need_expire = k.need_expire
  BY <1>1, <1>4, UpdateFields
<1>8. e \in BOOLEAN BY <1>4 DEF Cached, Sound, Kgem
<1>9. e <=> k.need_expire \/ Cached(V, bos) BY <1>7
<1> HIDE DEF k0, e
<1>10. /\ k1.bo = bos /\ k1.flushing = {b \in k.flushing : bos[b].rq = Foreign}
       /\ k1.requests = k.requests /\ k1.next = k.next /\ k1.wedged = k.wedged
       /\ k1.need_expire = e
  BY <1>4, <1>7, <1>8 DEF Sound, Kgem
<1> HIDE DEF k1
<1>11. \A b \in V : bos[b].list = "inactive" => Cached(V, bos) BY DEF Cached
<1> QED BY <1>5, <1>6, <1>9, <1>10, <1>11 DEF ScanoutsCleaned

\* __kgem_bo_destroy gives a bo no other request.
LEMMA DestroyRq ==
  ASSUME NEW g, NEW b, NEW o \in BoState, NEW keep
  PROVE  __kgem_bo_destroy(g, b, o, keep).rq \in {o.rq, NoRq}
<1> DEFINE idle == IF ~o.exec /\ o.rq # NoRq /\ ~Busy(g, b) THEN __kgem_bo_clear_busy(o) ELSE o
           q(p, l) == [p EXCEPT !.list = l]
<1>1. /\ o.prime \in BOOLEAN /\ o.snoop \in BOOLEAN /\ o.scanout \in BOOLEAN
      /\ o.reusable \in BOOLEAN
  BY DEF BoState
<1>2. __kgem_bo_clear_busy(o) \in BoState /\ __kgem_bo_clear_busy(o).rq = NoRq
  BY Values DEF __kgem_bo_clear_busy, BoState
<1>3. idle \in BoState /\ idle.rq \in {o.rq, NoRq} BY <1>2
<1>4. \A p \in BoState : \A l : q(p, l).rq = p.rq BY DEF BoState
<1>5. Freed.rq = NoRq BY DEF Freed
<1>6. __kgem_bo_destroy(g, b, o, keep)
        \in {o, Freed, idle, q(idle, "snoop"), q(o, "scanout"), q(idle, "active"), q(idle, "inactive")}
  BY <1>1 DEF __kgem_bo_destroy, kgem_bo_move_to_snoop
<1> HIDE DEF idle, q
<1> QED BY <1>3, <1>4, <1>5, <1>6

\* The bo of V are framebuffers of the scanout cache that are not in the batch.
Scanouts(k, V) == V \subseteq Bo /\ \A b \in V : k.bo[b].list = "scanout" /\ ~k.bo[b].exec

\* The framebuffers of V, taken from the scanout cache, go where other bo go.
LEMMA CleanScanoutTracked ==
  ASSUME NEW k, Tracked(k), NEW g, NEW V, Scanouts(k, V), NEW cached \in BOOLEAN
  PROVE  /\ Tracked(CleanScanout(k, g, V, cached))
         /\ \A b \in Bo \ V : CleanScanout(k, g, V, cached).bo[b] = k.bo[b]
         /\ \A b \in Bo : k.bo[b].rq \in {NoRq, Foreign}
                            => CleanScanout(k, g, V, cached).bo[b].rq \in {NoRq, Foreign}
<1> DEFINE k1 == CleanScanout(k, g, V, cached)
           O == Outstanding(k)
<1>v. V \in SUBSET Bo /\ \A b \in V : k.bo[b].list = "scanout" /\ ~k.bo[b].exec BY DEF Scanouts
<1>1. Sound(k) /\ Numbered(O, k.next) BY DEF Tracked
<1>2. Sound(k1) BY <1>1, CleanScanoutSound
<1>s. ScanoutsCleaned(k, g, V, cached, k1) BY <1>1, <1>v, CleanScanoutFields
<1> HIDE DEF k1
<1>3. /\ \A b \in Bo : k1.bo[b] = IF b \in V THEN ScanoutCleaned(k, g, b, cached) ELSE k.bo[b]
      /\ k1.flushing = {b \in k.flushing : k1.bo[b].rq = Foreign}
      /\ k1.requests = k.requests /\ k1.next = k.next /\ k1.wedged = k.wedged
      /\ k.need_expire => k1.need_expire
      /\ \A b \in V : k1.bo[b].list = "inactive" => k1.need_expire
  BY <1>s DEF ScanoutsCleaned
<1>4. ASSUME NEW b \in V
      PROVE  LET p == Cleaned(k.bo[b], cached)
             IN /\ Fine(p, b, O, k.next, k.flushing) /\ p.refcnt = 0 /\ p.list = "none"
                /\ p.rq = k.bo[b].rq
  <2> DEFINE o == k.bo[b]
             p == Cleaned(o, cached)
  <2>1. o \in BoState /\ Fine(o, b, O, k.next, k.flushing) BY <1>v, TrackedBo
  <2>2. /\ o.refcnt = 0 /\ o.scanout /\ ~o.prime /\ ~o.snoop /\ ~o.batch /\ "scanout" \in Kinds
        /\ o.shared => "foreign" \in Kinds
    BY <1>v, <1>4, <2>1 DEF Fine, Listed, Attributes, Booked
  <2> HIDE DEF o
  <2>3. /\ p \in BoState /\ p.list = "none" /\ ~p.scanout
    BY <2>1, FlagsAssumption, Values DEF BoState, Cleaned
  <2>4. /\ p.refcnt = o.refcnt /\ p.rq = o.rq /\ p.exec = o.exec /\ p.write = o.write
        /\ p.needs_flush = o.needs_flush /\ p.batch = o.batch /\ p.snoop = o.snoop
        /\ p.prime = o.prime /\ p.shared = o.shared
    BY <2>1 DEF BoState, Cleaned
  <2> HIDE DEF p
  <2>5. Private => ~o.shared BY <2>1, <2>2 DEF Private, Fine, Attributes
  <2>6. Attributes(p) BY <2>2, <2>3, <2>4, <2>5 DEF Attributes
  <2>7. Listed(p) BY <2>3 DEF Listed
  <2>8. Booked(p, O, k.next) BY <2>1, <2>2, <2>4 DEF Fine, Booked
  <2>9. Flushing(p, b, k.flushing) BY <2>1, <2>2, <2>4 DEF Fine, Flushing
  <2>10. Fine(p, b, O, k.next, k.flushing) BY <2>3, <2>6, <2>7, <2>8, <2>9 DEF Fine
  <2> QED BY <2>2, <2>3, <2>4, <2>10 DEF o, p
<1>5. ASSUME NEW b \in Bo PROVE Good(k1.bo[b], b, O, k.next, k1.flushing)
  <2>1. CASE b \in V
    <3> DEFINE p == k1.bo[b]
    <3>1. Good(p, b, O, k.next, IF p.rq = Foreign THEN k.flushing ELSE {})
      <4>1. LET q == ScanoutCleaned(k, g, b, cached)
            IN Good(q, b, O, k.next, IF q.rq = Foreign THEN k.flushing ELSE {})
        BY <1>1, <1>4, <2>1, DestroyGood DEF ScanoutCleaned
      <4> QED BY <1>3, <2>1, <4>1
    <3> HIDE DEF O
    <3>2. CASE p.rq = Foreign
      <4>1. b \in k1.flushing <=> b \in k.flushing BY <1>3, <3>2
      <4> QED BY <3>1, <3>2, <4>1, GoodFlushing
    <3>3. CASE p.rq # Foreign
      <4>1. b \notin k1.flushing BY <1>3, <3>3
      <4> QED BY <3>1, <3>3, <4>1, GoodFlushing
    <3> QED BY <3>2, <3>3
  <2>2. CASE b \notin V
    <3>1. Good(k.bo[b], b, O, k.next, k.flushing) BY TrackedBo
    <3>2. b \in k.flushing => k.bo[b].rq = Foreign BY <3>1 DEF Good, Fine, Flushing
    <3>3. k1.bo[b] = k.bo[b] BY <1>3, <2>2
    <3>4. b \in k1.flushing <=> b \in k.flushing BY <1>3, <3>2, <3>3
    <3> QED BY <3>1, <3>3, <3>4, GoodFlushing
  <2> QED BY <2>1, <2>2
<1>6. ASSUME NEW b \in Bo, k.bo[b].batch PROVE k1.bo[b] = k.bo[b]
  <2>1. Fine(k.bo[b], b, O, k.next, k.flushing) BY TrackedBo
  <2>2. b \notin V BY <1>v, <1>6, <2>1 DEF Fine, Booked, Listed
  <2> QED BY <1>3, <2>2
<1>7. ASSUME "scanout" \notin Kinds, NEW b \in Bo \ Large, k1.bo[b].list = "inactive"
      PROVE  k1.need_expire
  BY <1>3, <1>7 DEF Tracked, Expiring
<1>8. Tracked(k1) BY <1>2, <1>3, <1>5, <1>6, <1>7, QuietTracked, ZenonT(60) DEF O
<1>9. ASSUME NEW b \in Bo, k.bo[b].rq \in {NoRq, Foreign} PROVE k1.bo[b].rq \in {NoRq, Foreign}
  <2>1. CASE b \in V
    <3>1. Cleaned(k.bo[b], cached).rq = k.bo[b].rq /\ Cleaned(k.bo[b], cached) \in BoState
      BY <1>4, <2>1 DEF Fine
    <3>2. \A o \in BoState : __kgem_bo_destroy(g, b, o, FALSE).rq \in {o.rq, NoRq} BY DestroyRq
    <3>3. ScanoutCleaned(k, g, b, cached).rq \in {k.bo[b].rq, NoRq}
      BY <3>1, <3>2 DEF ScanoutCleaned
    <3> QED BY <1>3, <1>9, <2>1, <3>3
  <2>2. CASE b \notin V BY <1>3, <1>9, <2>2
  <2> QED BY <2>1, <2>2
<1> QED BY <1>3, <1>8, <1>9 DEF k1

\* The fields that kgem_cleanup assigns to one bo.
Dropped(o) ==
  LET refcnt == IF o.batch THEN o.refcnt - 1 ELSE o.refcnt
  IN IF refcnt = 0 THEN Freed
     ELSE [__kgem_bo_clear_busy(o) EXCEPT !.refcnt = refcnt, !.batch = FALSE]

\* What kgem_cleanup leaves of a buffer of a request: what only requests kept
\* is freed, the others are idle.
LEMMA DroppedGood ==
  ASSUME NEW o, NEW b, NEW O, NEW nx, Numbered(O, nx), NEW F, Good(o, b, O, nx, F), o.rq \in O
  PROVE  /\ \A G : b \notin G => Good(Dropped(o), b, {}, nx, G)
         /\ Dropped(o) \in BoState /\ Dropped(o).rq = NoRq /\ Dropped(o).list # "inactive"
         /\ ~Dropped(o).batch
         /\ Owned(o) => Owned(Dropped(o))
<1> DEFINE refcnt == IF o.batch THEN o.refcnt - 1 ELSE o.refcnt
           c == __kgem_bo_clear_busy(o)
           p == [c EXCEPT !.refcnt = refcnt, !.batch = FALSE]
<1> HIDE DEF refcnt, c, p
<1>1. o \in BoState /\ ~o.exec /\ Fine(o, b, O, nx, F) BY DEF Good, Fine, Booked, Numbered
<1>2. Loose(c) /\ c.list = o.list BY <1>1, ClearBusyLoose DEF c
<1>a. /\ o.refcnt \in Nat /\ o.batch \in BOOLEAN
      /\ o.batch => o.refcnt > 0
      /\ o.refcnt > 0 => o.list = "none"
  BY <1>1 DEF BoState, Fine, Booked, Listed
<1>3. refcnt \in Nat /\ (refcnt # 0 => o.refcnt > 0) BY <1>a DEF refcnt
<1>n. Numbered({}, nx) BY DEF Numbered
<1>4. CASE refcnt = 0
  <2>1. Dropped(o) = Freed BY <1>4 DEF Dropped, refcnt
  <2>2. ~Owned(o) BY <1>a, <1>4 DEF Owned, refcnt
  <2>3. Freed \in BoState /\ Freed.rq = NoRq /\ Freed.list = "freed" /\ ~Freed.batch
    BY FreedSound DEF Freed, SoundBo
  <2> QED BY <1>n, <2>1, <2>2, <2>3, FreedGood
<1>5. CASE refcnt # 0
  <2>1. Dropped(o) = p BY <1>5 DEF Dropped, c, p, refcnt
  <2>2. o.refcnt > 0 BY <1>3, <1>5
  <2>3. p \in BoState /\ p.refcnt = refcnt /\ ~p.batch BY <1>2, <1>3 DEF p, Loose, BoState
  <2>4. /\ p.rq = NoRq /\ p.needs_flush = c.needs_flush /\ p.exec = c.exec
        /\ p.write = c.write /\ p.snoop = c.snoop /\ p.list = c.list
        /\ p.prime = c.prime /\ p.scanout = c.scanout /\ p.reusable = c.reusable
        /\ p.shared = c.shared
    BY <1>2 DEF p, Loose, BoState
  <2>5. Loose(p) BY <1>2, <2>3, <2>4 DEF Loose, Attributes
  <2>6. p.list = "none" /\ p.refcnt > 0 BY <1>a, <1>2, <1>3, <1>5, <2>2, <2>3, <2>4
  <2>7. \A G : b \notin G => Good(p, b, {}, nx, G) BY <1>n, <2>5, <2>6, HeldLooseGood
  <2>8. Owned(p) BY <2>3, <2>6 DEF Owned
  <2> QED BY <2>1, <2>3, <2>4, <2>6, <2>7, <2>8
<1> QED BY <1>4, <1>5

\* kgem_cleanup: no request is left.
LEMMA CleanupTracked ==
  ASSUME NEW k, Tracked(k), k.wedged \/ Outstanding(k) = {}
  PROVE  /\ Tracked(kgem_cleanup(k))
         /\ \A b \in Bo : k.bo[b].exec => kgem_cleanup(k).bo[b] = k.bo[b]
         /\ Outstanding(k) = {} => \A b \in Bo : Steady(k.bo[b], kgem_cleanup(k).bo[b])
<1> DEFINE O == Outstanding(k)
           S == Buffers(k, O)
           bos == [b \in Bo |->
                IF b \in S THEN Dropped(k.bo[b])
                ELSE IF k.bo[b].list = "inactive" /\ b \notin Large THEN Freed ELSE k.bo[b]]
           k0 == Update(k, bos, k.flushing)
           k1 == [k0 EXCEPT !.requests = [n \in Ring |-> {}]]
<1>1. Sound(k) /\ Numbered(O, k.next) /\ k \in Kgem BY DEF Tracked, Sound
<1>2. kgem_cleanup(k) = k1 BY DEF kgem_cleanup, Dropped
<1>3. Sound(k1) BY <1>1, <1>2, CleanupSound
<1>4. \A b \in Bo : bos[b] = IF k.bo[b].rq \in O THEN Dropped(k.bo[b])
                             ELSE IF k.bo[b].list = "inactive" /\ b \notin Large THEN Freed ELSE k.bo[b]
  BY DEF Buffers
<1>5. ASSUME NEW b \in Bo PROVE bos[b] \in BoState
  <2>1. Good(k.bo[b], b, O, k.next, k.flushing) BY TrackedBo
  <2>2. k.bo[b].rq \in O => Dropped(k.bo[b]) \in BoState
    BY <1>1, <2>1, DroppedGood
  <2>3. Freed \in BoState BY FreedSound DEF SoundBo
  <2>4. k.bo[b] \in BoState BY TrackedBo
  <2> QED BY <1>4, <2>2, <2>3, <2>4
<1>6. bos \in [Bo -> BoState] BY <1>5
<1> HIDE DEF bos
<1>7. /\ k0.bo = bos /\ k0.flushing = {b \in k.flushing : bos[b].rq = Foreign}
      /\ k0.requests = k.requests /\ k0.next = k.next /\ k0.wedged = k.wedged
      /\ k0.need_expire = k.need_expire
  BY <1>1, <1>6, UpdateFields
<1>8. k0 \in Kgem
  <2>1. {b \in k.flushing : bos[b].rq = Foreign} \in SUBSET Bo BY <1>1 DEF Kgem
  <2> QED BY <1>1, <1>6, <2>1 DEF Kgem, Update, StillFlushing
<1> HIDE DEF k0
<1>9. /\ k1.bo = bos /\ k1.flushing = {b \in k.flushing : bos[b].rq = Foreign}
      /\ k1.requests = [n \in Ring |-> {}] /\ k1.next = k.next /\ k1.wedged = k.wedged
      /\ k1.need_expire = k.need_expire
  BY <1>7, <1>8 DEF Kgem
<1> HIDE DEF k1
<1>10. Outstanding(k1) = {} BY <1>9 DEF Outstanding
<1>11. ASSUME NEW b \in Bo
       PROVE  /\ Good(k1.bo[b], b, {}, k.next, k1.flushing)
              /\ k1.bo[b].list = "inactive" => k.bo[b].list = "inactive"
              /\ k.bo[b].exec => k1.bo[b] = k.bo[b]
              /\ O = {} => Steady(k.bo[b], k1.bo[b])
  <2> DEFINE o == k.bo[b]
  <2>1. Good(o, b, O, k.next, k.flushing) /\ o \in BoState BY TrackedBo
  <2>2. b \in k.flushing => o.rq = Foreign BY <2>1 DEF Good, Fine, Flushing
  <2>3. Freed.rq = NoRq /\ Freed.list = "freed" /\ ~Freed.batch /\ NoRq # Foreign
    BY DEF Freed, NoRq, Foreign
  <2>4. CASE o.rq \in O
    <3>1. k1.bo[b] = Dropped(o) BY <1>4, <1>9, <2>4
    <3>2. /\ \A G : b \notin G => Good(Dropped(o), b, {}, k.next, G)
          /\ Dropped(o).rq = NoRq /\ Dropped(o).list # "inactive"
      BY <1>1, <2>1, <2>4, DroppedGood
    <3>3. ~o.exec BY <1>1, <2>1, <2>4 DEF Good, Fine, Booked, Numbered
    <3>4. b \notin k1.flushing BY <1>4, <1>9, <2>3, <2>4, <3>2
    <3> QED BY <2>4, <3>1, <3>2, <3>3, <3>4
  <2>5. CASE o.rq \notin O /\ o.list = "inactive" /\ b \notin Large
    <3>1. k1.bo[b] = Freed BY <1>4, <1>9, <2>5
    <3>2. b \notin k1.flushing BY <1>9, <2>3, <3>1
    <3>3. ~o.exec /\ ~Owned(o) BY <2>5, CachedBo
    <3>4. Numbered({}, k.next) BY <1>1 DEF Numbered
    <3>5. Steady(o, Freed) BY <2>3, <2>5, <3>3 DEF Steady
    <3> QED BY <2>3, <3>1, <3>2, <3>3, <3>4, <3>5, FreedGood, <2>5
  <2>6. CASE o.rq \notin O /\ ~(o.list = "inactive" /\ b \notin Large)
    <3>1. k1.bo[b] = o BY <1>4, <1>9, <2>6
    <3>2. b \in k1.flushing <=> b \in k.flushing BY <1>9, <2>2, <3>1
    <3>3. Good(o, b, O \ O, k.next, k.flushing) BY <1>1, <2>1, <2>6, FewerRequestsGood
    <3>4. O \ O = {} OBVIOUS
    <3>5. Good(o, b, {}, k.next, k.flushing) BY <3>3, <3>4
    <3>6. Steady(o, o) BY DEF Steady
    <3> QED BY <3>1, <3>2, <3>5, <3>6, GoodFlushing
  <2> QED BY <2>4, <2>5, <2>6
<1>12. Expiring(k1) BY <1>9, <1>11 DEF Tracked, Expiring
<1>13. k1.wedged => "pressure" \in Kinds BY <1>9 DEF Tracked
<1>14. Numbered({}, k1.next) BY <1>1, <1>9 DEF Numbered
<1>15. Tracked(k1) BY <1>3, <1>9, <1>10, <1>11, <1>12, <1>13, <1>14 DEF Tracked
<1> QED BY <1>2, <1>11, <1>15

\* A bo in the batch is not touched.
Spared(k, k1) == \A b \in Bo : k.bo[b].exec => k1.bo[b] = k.bo[b]

\* One call after the other.
LEMMA SparedTwice ==
  ASSUME NEW k, NEW k1, NEW k2, Spared(k, k1), Spared(k1, k2) PROVE Spared(k, k2)
  BY DEF Spared

\* What steady bo make of the arguments of the calls that follow.
LEMMA SteadyArguments ==
  ASSUME NEW k, NEW k1, \A b \in Bo : Steady(k.bo[b], k1.bo[b])
  PROVE  /\ Spared(k, k1)
         /\ \A F : Alone(k, F) => Alone(k1, F)
         /\ \A V : Scanouts(k, V) => Scanouts(k1, V)
<1>1. Spared(k, k1) BY DEF Steady, Spared
<1>2. ASSUME NEW F, Alone(k, F) PROVE Alone(k1, F) BY <1>2 DEF Steady, Alone
<1>3. ASSUME NEW V, Scanouts(k, V) PROVE Scanouts(k1, V) BY <1>3 DEF Steady, Scanouts
<1> QED BY <1>1, <1>2, <1>3

\* kgem_expire_cache.
LEMMA ExpireCacheTracked ==
  ASSUME NEW k, Tracked(k), NEW g \in Gpu, NEW V, Scanouts(k, V), NEW cached \in BOOLEAN,
         NEW X, \A b \in Bo \cap X : k.bo[b].list = "snoop", NEW F, Alone(k, F), NEW E
  PROVE  /\ Tracked(kgem_expire_cache(k, g, V, cached, X, F, E))
         /\ Spared(k, kgem_expire_cache(k, g, V, cached, X, F, E))
<1> DEFINE k1 == FreeAll(k, InCache(k, "inactive") \cap Large)
           c == CleanScanout(k1, g, V, cached)
           x == FreeAll(c, X)
           k2 == kgem_retire(x, g, F)
           k3 == IF k.wedged THEN kgem_cleanup(k2) ELSE k2
           k4 == FreeAll(k3, E \cap InCache(k3, "inactive"))
           e == InCache(k4, "inactive") \ Large # {}
<1>1. /\ Tracked(k1) /\ \A b \in Bo : Steady(k.bo[b], k1.bo[b])
      /\ \A b \in Bo \cap X : k1.bo[b] = k.bo[b]
  <2> DEFINE S == InCache(k, "inactive") \cap Large
  <2>1. \A b \in Bo : b \in S => k.bo[b].list = "inactive" BY DEF InCache
  <2> HIDE DEF S
  <2>2. /\ Tracked(FreeAll(k, S)) /\ \A b \in Bo : Steady(k.bo[b], FreeAll(k, S).bo[b])
        /\ \A b \in Bo : FreeAll(k, S).bo[b] = IF b \in S THEN Freed ELSE k.bo[b]
    BY <2>1, FreeCachedTracked
  <2>3. \A b \in Bo \cap X : b \notin S BY <2>1
  <2> QED BY <2>2, <2>3 DEF S
<1>2. Spared(k, k1) /\ Alone(k1, F) /\ Scanouts(k1, V) BY <1>1, SteadyArguments
<1>w1. k1.wedged = k.wedged BY KeepsRequests DEF Tracked
<1>t1. Tracked(k1) BY <1>1
<1>s1. Scanouts(k1, V) BY <1>2
<1> HIDE DEF k1
<1>3. /\ Tracked(c) /\ \A b \in Bo \ V : c.bo[b] = k1.bo[b]
      /\ \A b \in Bo : k1.bo[b].rq \in {NoRq, Foreign} => c.bo[b].rq \in {NoRq, Foreign}
  <2>1. Tracked(c) BY ONLY <1>t1, <1>s1, cached \in BOOLEAN, CleanScanoutTracked
  <2>2. \A b \in Bo \ V : c.bo[b] = k1.bo[b]
    BY ONLY <1>t1, <1>s1, cached \in BOOLEAN, CleanScanoutTracked
  <2>3. \A b \in Bo : k1.bo[b].rq \in {NoRq, Foreign} => c.bo[b].rq \in {NoRq, Foreign}
    BY ONLY <1>t1, <1>s1, cached \in BOOLEAN, CleanScanoutTracked
  <2> QED BY <2>1, <2>2, <2>3
<1>4. Spared(k1, c) BY <1>2, <1>3 DEF Scanouts, Spared
<1>5. Alone(c, F) BY <1>2, <1>3 DEF Alone
<1>6. \A b \in Bo \cap X : c.bo[b].list = "snoop"
  BY <1>1, <1>3 DEF Scanouts
<1>w2. c.wedged = k1.wedged BY <1>1, KeepsRequests DEF Tracked
<1> HIDE DEF c
<1>7. Tracked(x) /\ \A b \in Bo : Steady(c.bo[b], x.bo[b]) BY <1>3, <1>6, FreeCachedTracked
<1>8. Spared(c, x) /\ Alone(x, F) BY <1>5, <1>7, SteadyArguments
<1>w3. x.wedged = c.wedged BY <1>3, KeepsRequests DEF Tracked
<1> HIDE DEF x
<1>9. Tracked(k2) /\ \A b \in Bo : Steady(x.bo[b], k2.bo[b])
  BY <1>7, <1>8, RetireTracked, RetireSteady
<1>10. Spared(x, k2) BY <1>9, SteadyArguments
<1>w4. k2.wedged <=> k.wedged BY <1>7, <1>w1, <1>w2, <1>w3, RetireKeeps DEF Tracked
<1> HIDE DEF k2
<1>11. Tracked(k3) /\ Spared(k2, k3)
  <2>1. CASE k.wedged
    <3>1. Tracked(kgem_cleanup(k2)) /\ Spared(k2, kgem_cleanup(k2))
      BY <1>9, <1>w4, <2>1, CleanupTracked DEF Spared
    <3> QED BY <2>1, <3>1
  <2>2. CASE ~k.wedged BY <1>9, <2>2 DEF Spared
  <2> QED BY <2>1, <2>2
<1> HIDE DEF k3
<1>12. Tracked(k4) /\ \A b \in Bo : Steady(k3.bo[b], k4.bo[b])
  <2> DEFINE S == E \cap InCache(k3, "inactive")
  <2>1. \A b \in Bo \cap S : k3.bo[b].list = "inactive" BY DEF InCache
  <2> HIDE DEF S
  <2>2. Tracked(FreeAll(k3, S)) /\ \A b \in Bo : Steady(k3.bo[b], FreeAll(k3, S).bo[b])
    BY <1>11, <2>1, FreeCachedTracked
  <2> QED BY <2>2 DEF S
<1>13. Spared(k3, k4) BY <1>12, SteadyArguments
<1> HIDE DEF k4
<1>14. Tracked([k4 EXCEPT !.need_expire = e])
  <2>1. \A b \in Bo \ Large : k4.bo[b].list = "inactive" => e BY DEF InCache
  <2>2. e \in BOOLEAN OBVIOUS
  <2> HIDE DEF e
  <2> QED BY <1>12, <2>1, <2>2, NeedExpireTracked
<1>15. Spared(k4, [k4 EXCEPT !.need_expire = e]) BY <1>12 DEF Spared, Tracked, Sound, Kgem
<1>16. kgem_expire_cache(k, g, V, cached, X, F, E) = [k4 EXCEPT !.need_expire = e]
  BY DEF kgem_expire_cache, k1, c, x, k2, k3, k4, e
<1> DEFINE K == [k4 EXCEPT !.need_expire = e]
<1> HIDE DEF e, K
<1>17. Spared(k, K)
  BY <1>2, <1>4, <1>8, <1>10, <1>11, <1>13, <1>15, SparedTwice DEF K
<1> QED BY <1>14, <1>16, <1>17 DEF K

\* kgem_cleanup_cache.
LEMMA CleanupCacheTracked ==
  ASSUME NEW k, Tracked(k), NEW g \in Gpu, NEW V, Scanouts(k, V), NEW cached \in BOOLEAN,
         NEW F, Alone(k, F)
  PROVE  /\ Tracked(kgem_cleanup_cache(k, g, F, V, cached))
         /\ Spared(k, kgem_cleanup_cache(k, g, F, V, cached))
<1> DEFINE q == __kgem_retire_rq(k, g, Outstanding(k))
           t == kgem_retire(q, g, F)
           k1 == kgem_cleanup(t)
           f == FreeAll(k1, InCache(k1, "inactive"))
           k2 == CleanScanout(f, g, V, cached)
           k3 == FreeAll(k2, InCache(k2, "snoop"))
           k4 == [k3 EXCEPT !.need_expire = FALSE]
<1>1. Tracked(q) /\ \A b \in Bo : Steady(k.bo[b], q.bo[b]) BY RetireRqTracked, RetireRqSteady
<1>2. Outstanding(q) = {}
  <2>1. Retired(k, g, Outstanding(k), q) BY RetireRqFields DEF Tracked
  <2> QED BY <2>1 DEF Retired
<1>3. Spared(k, q) /\ Alone(q, F) /\ Scanouts(q, V) BY <1>1, SteadyArguments
<1> HIDE DEF q
<1>4. /\ Tracked(t) /\ \A b \in Bo : Steady(q.bo[b], t.bo[b])
      /\ Outstanding(t) = {}
  BY <1>1, <1>2, <1>3, RetireTracked, RetireSteady, RetireKeeps DEF Tracked
<1>5. Spared(q, t) /\ Scanouts(t, V) BY <1>3, <1>4, SteadyArguments
<1> HIDE DEF t
<1>6. Tracked(k1) /\ \A b \in Bo : Steady(t.bo[b], k1.bo[b]) BY <1>4, CleanupTracked
<1>7. Spared(t, k1) /\ Scanouts(k1, V) BY <1>5, <1>6, SteadyArguments
<1> HIDE DEF k1
<1>8. /\ Tracked(f) /\ \A b \in Bo : Steady(k1.bo[b], f.bo[b])
      /\ \A b \in Bo : f.bo[b].list # "inactive"
  <2> DEFINE S == InCache(k1, "inactive")
  <2>1. \A b \in Bo : b \in S <=> k1.bo[b].list = "inactive" BY DEF InCache
  <2> HIDE DEF S
  <2>2. /\ Tracked(FreeAll(k1, S)) /\ \A b \in Bo : Steady(k1.bo[b], FreeAll(k1, S).bo[b])
        /\ \A b \in Bo : FreeAll(k1, S).bo[b] = IF b \in S THEN Freed ELSE k1.bo[b]
    BY <1>6, <2>1, FreeCachedTracked
  <2>3. Freed.list = "freed" BY DEF Freed
  <2> QED BY <2>1, <2>2, <2>3 DEF S
<1>9. Spared(k1, f) /\ Scanouts(f, V) BY <1>7, <1>8, SteadyArguments
<1> HIDE DEF f
<1>10. Tracked(k2) /\ \A b \in Bo \ V : k2.bo[b] = f.bo[b]
  BY <1>8, <1>9, CleanScanoutTracked
<1>11. Spared(f, k2) BY <1>9, <1>10 DEF Scanouts, Spared
<1>12. ASSUME "scanout" \notin Kinds, NEW b \in Bo PROVE k2.bo[b].list # "inactive"
  <2>1. Attributes(f.bo[b]) /\ Listed(f.bo[b]) BY <1>8, TrackedBo DEF Fine
  <2>2. b \notin V BY <1>9, <1>12, <2>1 DEF Attributes, Listed, Scanouts
  <2> QED BY <1>8, <1>10, <2>2
<1> HIDE DEF k2
<1>13. /\ Tracked(k3) /\ \A b \in Bo : Steady(k2.bo[b], k3.bo[b])
       /\ "scanout" \notin Kinds => \A b \in Bo : k3.bo[b].list # "inactive"
  <2> DEFINE S == InCache(k2, "snoop")
  <2>1. \A b \in Bo : b \in S => k2.bo[b].list = "snoop" BY DEF InCache
  <2> HIDE DEF S
  <2>2. /\ Tracked(FreeAll(k2, S)) /\ \A b \in Bo : Steady(k2.bo[b], FreeAll(k2, S).bo[b])
        /\ \A b \in Bo : FreeAll(k2, S).bo[b] = IF b \in S THEN Freed ELSE k2.bo[b]
    BY <1>10, <2>1, FreeCachedTracked
  <2>3. Freed.list = "freed" BY DEF Freed
  <2> QED BY <1>12, <2>1, <2>2, <2>3 DEF S
<1>14. Spared(k2, k3) BY <1>13, SteadyArguments
<1> HIDE DEF k3
<1>15. Tracked(k4) BY <1>13, NeedExpireTracked
<1>16. Spared(k3, k4) BY <1>13 DEF Spared, Tracked, Sound, Kgem
<1> HIDE DEF k4
<1>17. kgem_cleanup_cache(k, g, F, V, cached) \in {k1, k4}
  BY DEF kgem_cleanup_cache, q, t, k1, f, k2, k3, k4
<1>18. Spared(k, k1) BY <1>3, <1>5, <1>7, SparedTwice
<1>19. Spared(k, k4) BY <1>9, <1>11, <1>14, <1>16, <1>18, SparedTwice
<1> QED BY <1>6, <1>15, <1>17, <1>18, <1>19

\* The bo of the flushing list wait for nothing but themselves, the framebuffers
\* that kgem_clean_scanout_cache reaches are not in the batch.
LEMMA ScansTracked ==
  ASSUME NEW k, Tracked(k), NEW g
  PROVE  /\ \A F \in FlushScans(k, g) : Alone(k, F)
         /\ \A V \in ScanoutScans(k, g) \cup {{}} : Scanouts(k, V)
<1>1. ASSUME NEW F \in FlushScans(k, g) PROVE Alone(k, F)
  <2>1. F \subseteq k.flushing BY DEF FlushScans
  <2>2. ASSUME NEW b \in Bo \cap F PROVE k.bo[b].rq = Foreign
    BY <2>1, TrackedBo DEF Fine, Flushing
  <2> QED BY <2>2 DEF Alone
<1>2. ASSUME NEW V \in ScanoutScans(k, g) \cup {{}} PROVE Scanouts(k, V)
  <2>1. V \subseteq {b \in InCache(k, "scanout") : ~k.bo[b].exec /\ ~Busy(g, b)}
    BY DEF ScanoutScans
  <2> QED BY <2>1 DEF InCache, Scanouts
<1> QED BY <1>1, <1>2

\* The outcomes of kgem_expire_cache.
LEMMA ExpiredTracked ==
  ASSUME NEW k, Tracked(k), NEW g \in Gpu, NEW p \in Expired(k, g)
  PROVE  Tracked(p[1]) /\ Spared(k, p[1]) /\ p[1].next = k.next
<1>1. PICK V, cached, X, F, E :
        /\ V \in ScanoutScans(k, g) \cup {{}} /\ cached \in Cacheable(k)
        /\ X \in SUBSET InCache(k, "snoop") /\ F \in FlushScans(k, g)
        /\ p = <<kgem_expire_cache(k, g, V, cached, X, F, E), E # {}>>
  BY DEF Expired
<1>2. Alone(k, F) /\ Scanouts(k, V) BY <1>1, ScansTracked
<1>3. cached \in BOOLEAN BY <1>1, CacheableType
<1>4. \A b \in Bo \cap X : k.bo[b].list = "snoop" BY <1>1 DEF InCache
<1>5. p[1] = kgem_expire_cache(k, g, V, cached, X, F, E) BY <1>1
<1>6. p[1].next = k.next BY <1>3, <1>5, ExpireCacheKeepsNext DEF Tracked
<1> QED BY <1>2, <1>3, <1>4, <1>5, <1>6, ExpireCacheTracked

\* The outcomes of kgem_cleanup_cache.
LEMMA CleanedUpTracked ==
  ASSUME NEW k, Tracked(k), NEW g \in Gpu, NEW k1 \in CleanedUp(k, g)
  PROVE  Tracked(k1) /\ Spared(k, k1) /\ k1.next = k.next
<1>1. PICK F \in FlushScans(k, g), V \in ScanoutScans(k, g), cached \in Cacheable(k) :
        k1 = kgem_cleanup_cache(k, g, F, V, cached)
  BY DEF CleanedUp
<1>2. Alone(k, F) /\ Scanouts(k, V) BY ScansTracked
<1>3. cached \in BOOLEAN BY CacheableType
<1>4. k1.next = k.next BY <1>1, <1>3, CleanupCacheKeepsNext DEF Tracked
<1> QED BY <1>1, <1>2, <1>3, <1>4, CleanupCacheTracked

\* The searches of the caches may retire first.
LEMMA SearchesTracked ==
  ASSUME NEW k, Tracked(k), NEW g \in Gpu, NEW s \in Searches(k, g)
  PROVE  /\ Tracked(s) /\ s.next = k.next
         /\ \A b \in Bo : Steady(k.bo[b], s.bo[b])
<1>1. CASE s = k BY <1>1 DEF Steady
<1>2. CASE s # k
  <2>1. PICK F \in FlushScans(k, g) : s = kgem_retire(k, g, F) BY <1>2 DEF Searches
  <2>2. Alone(k, F) BY ScansTracked
  <2> QED BY <2>1, <2>2, RetireTracked, RetireSteady
<1> QED BY <1>1, <1>2

-----------------------------------------------------------------------------
(* The batch.                                                                *)

\* As Tracked, but some bo of S may be kept by nobody: their owner gives them
\* up, or holds them, in this very call.
TrackedBut(k, S) ==
  /\ Sound(k)
  /\ Numbered(Outstanding(k), k.next)
  /\ \A b \in Bo : /\ Fine(k.bo[b], b, Outstanding(k), k.next, k.flushing)
                   /\ b \in S => k.bo[b].list = "none"
                   /\ b \notin S => Kept(k.bo[b], b, Outstanding(k), k.next, k.flushing)
  /\ \A r \in Outstanding(k) : \E b \in Bo : k.bo[b].batch /\ k.bo[b].rq = r
  /\ k.wedged => "pressure" \in Kinds
  /\ Expiring(k)

\* Without exception it is Tracked.
LEMMA TrackedButNone ==
  ASSUME NEW k
  PROVE  /\ Tracked(k) <=> TrackedBut(k, {})
         /\ \A S : TrackedBut(k, S) /\ (\A b \in Bo \cap S : k.bo[b].refcnt > 0) => Tracked(k)
<1>1. Tracked(k) <=> TrackedBut(k, {}) BY DEF Tracked, TrackedBut, Good, Fine
<1>2. ASSUME NEW S, TrackedBut(k, S), \A b \in Bo \cap S : k.bo[b].refcnt > 0 PROVE Tracked(k)
  <2>1. ASSUME NEW b \in Bo PROVE Good(k.bo[b], b, Outstanding(k), k.next, k.flushing)
    BY <1>2 DEF TrackedBut, Good, Kept
  <2> QED BY <1>2, <2>1 DEF TrackedBut, Tracked
<1> QED BY <1>1, <1>2

\* What kgem_reset makes of a bo of the batch that nothing else keeps busy.
ResetIdle(o) == [__kgem_bo_clear_busy(o) EXCEPT !.exec = FALSE, !.write = FALSE]

\* It is loose.
LEMMA ResetIdleLoose ==
  ASSUME NEW o, NEW b, NEW O, NEW nx, NEW F, Fine(o, b, O, nx, F)
  PROVE  /\ Loose(ResetIdle(o)) /\ ResetIdle(o).refcnt = o.refcnt /\ ResetIdle(o).list = o.list
         /\ ResetIdle(o).batch = o.batch
<1> DEFINE c == __kgem_bo_clear_busy(o)
           p == ResetIdle(o)
<1>1. o \in BoState /\ Attributes(o) BY DEF Fine
<1>2. /\ c \in BoState /\ c.rq = NoRq /\ ~c.needs_flush
      /\ c.refcnt = o.refcnt /\ c.list = o.list /\ c.batch = o.batch /\ c.snoop = o.snoop
      /\ c.prime = o.prime /\ c.scanout = o.scanout /\ c.reusable = o.reusable
      /\ c.shared = o.shared
  BY <1>1, Values DEF BoState, __kgem_bo_clear_busy
<1> HIDE DEF c
<1>3. p \in BoState /\ ~p.exec /\ ~p.write BY <1>2 DEF BoState, ResetIdle, c
<1>4. /\ p.rq = NoRq /\ ~p.needs_flush
      /\ p.refcnt = c.refcnt /\ p.list = c.list /\ p.batch = c.batch /\ p.snoop = c.snoop
      /\ p.prime = c.prime /\ p.scanout = c.scanout /\ p.reusable = c.reusable
      /\ p.shared = c.shared
  BY <1>2 DEF BoState, ResetIdle, c
<1> HIDE DEF p
<1>5. Attributes(p) BY <1>1, <1>2, <1>4 DEF Attributes
<1>6. o.batch => o.refcnt > 0 /\ Recyclable(o) BY DEF Fine, Booked
<1>7. Loose(p) BY <1>2, <1>3, <1>4, <1>5, <1>6 DEF Loose, Recyclable
<1> QED BY <1>2, <1>4, <1>7 DEF p

\* What it makes of one that an earlier request still writes.
ResetBusy(o) == [o EXCEPT !.exec = FALSE, !.write = FALSE, !.rq = Foreign]

\* The flushing list keeps it.
LEMMA ResetBusyGood ==
  ASSUME NEW o, NEW b, NEW O, NEW nx, NEW F, Numbered(O, nx), Fine(o, b, O, nx, F),
         o.rq = nx, NEW G, b \in G
  PROVE  Good(ResetBusy(o), b, O, nx, G) /\ ResetBusy(o).list = o.list
<1> DEFINE p == ResetBusy(o)
<1>1. o \in BoState /\ Attributes(o) /\ Listed(o) /\ Booked(o, O, nx) /\ nx # NoRq /\ nx # Foreign
  BY DEF Fine, Numbered, NoRq, Foreign
<1>2. p \in BoState /\ p.rq = Foreign /\ ~p.exec /\ ~p.write
  BY <1>1, Values DEF BoState, ResetBusy
<1>3. /\ p.refcnt = o.refcnt /\ p.list = o.list /\ p.batch = o.batch /\ p.snoop = o.snoop
      /\ p.prime = o.prime /\ p.scanout = o.scanout /\ p.reusable = o.reusable
      /\ p.shared = o.shared
  BY <1>1 DEF BoState, ResetBusy
<1> HIDE DEF p
<1>4. Attributes(p) BY <1>1, <1>3 DEF Attributes
<1>5. Listed(p) BY <1>1, <1>2, <1>3 DEF Listed, Recyclable, NoRq, Foreign
<1>6. Booked(p, O, nx) BY <1>1, <1>2, <1>3 DEF Booked, Recyclable, NoRq, Foreign
<1>7. Good(p, b, O, nx, G) BY <1>2, <1>4, <1>5, <1>6 DEF Good, Fine, Flushing, Kept
<1> QED BY <1>3, <1>7 DEF p

\* The fields that kgem_reset assigns, in its result k1.
WasReset(k, g, held, k1) ==
  /\ \A b \in Bo : k1.bo[b] =
       IF k.bo[b].rq # k.next THEN k.bo[b]
       ELSE IF b \in ResetFlushes(k, g) THEN ResetBusy(k.bo[b])
       ELSE IF b \in held THEN ResetIdle(k.bo[b])
       ELSE Release(b, ResetIdle(k.bo[b]))
  /\ k1.flushing = k.flushing \cup ResetFlushes(k, g)
  /\ k1.requests = k.requests /\ k1.next = k.next /\ k1.wedged = k.wedged
  /\ k.need_expire => k1.need_expire
  /\ \A b \in Bo : /\ k.bo[b].rq = k.next /\ b \notin ResetFlushes(k, g) /\ b \notin held
                   /\ k1.bo[b].refcnt = 0 /\ k1.bo[b].list = "inactive"
                   => k1.need_expire

\* They are these.
LEMMA ResetFields ==
  ASSUME NEW k, Sound(k), NEW g, NEW held
  PROVE  WasReset(k, g, held, kgem_reset(k, g, held))
<1> DEFINE S == Buffers(k, {k.next})
           F == ResetFlushes(k, g)
           bos == [b \in Bo |->
                CASE b \notin S -> k.bo[b]
                  [] b \in F -> ResetBusy(k.bo[b])
                  [] b \in S \ F -> IF b \in held THEN ResetIdle(k.bo[b])
                                    ELSE Release(b, ResetIdle(k.bo[b]))]
           e == Cached({b \in S \ (F \cup held) : bos[b].refcnt = 0}, bos)
           k1 == [k EXCEPT !.bo = bos, !.flushing = @ \cup F,
                           !.need_retire = @ \/ F # {}, !.need_expire = @ \/ e]
<1>1. kgem_reset(k, g, held) = k1 BY DEF kgem_reset, ResetIdle, ResetBusy
<1>2. k \in Kgem BY DEF Sound
<1>3. F \subseteq S /\ \A b \in Bo : b \in S <=> k.bo[b].rq = k.next BY DEF ResetFlushes, Buffers
<1> HIDE DEF S, F
<1>4. \A b \in Bo : bos[b] = IF k.bo[b].rq # k.next THEN k.bo[b]
                             ELSE IF b \in F THEN ResetBusy(k.bo[b])
                             ELSE IF b \in held THEN ResetIdle(k.bo[b])
                             ELSE Release(b, ResetIdle(k.bo[b]))
  BY <1>3
<1> HIDE DEF bos
<1>5. ASSUME NEW b \in Bo, k.bo[b].rq = k.next, b \notin F, b \notin held,
             bos[b].refcnt = 0, bos[b].list = "inactive"
      PROVE  e
  <2>1. b \in {c \in S \ (F \cup held) : bos[c].refcnt = 0} BY <1>3, <1>5
  <2> QED BY <1>5, <2>1 DEF Cached
<1> HIDE DEF e
<1>6. /\ k1.bo = bos /\ k1.flushing = k.flushing \cup F
      /\ k1.requests = k.requests /\ k1.next = k.next /\ k1.wedged = k.wedged
      /\ k1.need_expire = (k.need_expire \/ e)
  BY <1>2 DEF Kgem
<1> HIDE DEF k1
<1>7. WasReset(k, g, held, k1) BY <1>4, <1>5, <1>6 DEF WasReset, F
<1> QED BY <1>1, <1>7

\* kgem_reset: who holds a bo of the batch keeps it, the others go to the caches.
LEMMA ResetTracked ==
  ASSUME NEW k, NEW held, TrackedBut(k, held), NEW g \in Gpu
  PROVE  /\ TrackedBut(kgem_reset(k, g, held), held)
         /\ \A b \in Bo \cap held : kgem_reset(k, g, held).bo[b].refcnt = k.bo[b].refcnt
<1> DEFINE k1 == kgem_reset(k, g, held)
           O == Outstanding(k)
           F == ResetFlushes(k, g)
<1>1. Sound(k) /\ Numbered(O, k.next) BY DEF TrackedBut
<1>2. Sound(k1) BY <1>1, ResetSound
<1>3. WasReset(k, g, held, k1) BY <1>1, ResetFields
<1>4. \A b \in F : k.bo[b].rq = k.next BY DEF ResetFlushes, Buffers
<1> HIDE DEF k1, F
<1>5. ASSUME NEW b \in Bo
      PROVE  /\ Fine(k1.bo[b], b, O, k.next, k1.flushing)
             /\ b \in held => k1.bo[b].list = "none" /\ k1.bo[b].refcnt = k.bo[b].refcnt
             /\ b \notin held => Kept(k1.bo[b], b, O, k.next, k1.flushing)
  <2> DEFINE o == k.bo[b]
  <2>1. /\ Fine(o, b, O, k.next, k.flushing)
        /\ b \in held => o.list = "none"
        /\ b \notin held => Kept(o, b, O, k.next, k.flushing)
    BY DEF TrackedBut
  <2>2. k1.flushing = k.flushing \cup F BY <1>3 DEF WasReset, F
  <2>3. b \in k.flushing => o.rq = Foreign BY <2>1 DEF Fine, Flushing
  <2>4. k.next # Foreign BY <1>1 DEF Numbered, Foreign
  <2>5. CASE o.rq # k.next
    <3>1. k1.bo[b] = o BY <1>3, <2>5 DEF WasReset
    <3>2. b \in k1.flushing <=> b \in k.flushing BY <1>4, <2>2, <2>5
    <3> QED BY <2>1, <3>1, <3>2 DEF Fine, Flushing, Kept
  <2>6. CASE o.rq = k.next /\ b \in F
    <3>1. k1.bo[b] = ResetBusy(o) BY <1>3, <2>6 DEF WasReset, F
    <3>2. b \in k1.flushing BY <2>2, <2>6
    <3>3. Good(ResetBusy(o), b, O, k.next, k1.flushing) /\ ResetBusy(o).list = o.list
      BY <1>1, <2>1, <2>6, <3>2, ResetBusyGood
    <3>4. ResetBusy(o).refcnt = o.refcnt BY <2>1 DEF Fine, BoState, ResetBusy
    <3> QED BY <2>1, <3>1, <3>3, <3>4 DEF Good
  <2>7. CASE o.rq = k.next /\ b \notin F
    <3>1. b \notin k1.flushing BY <2>2, <2>3, <2>4, <2>7
    <3>2. /\ Loose(ResetIdle(o)) /\ ResetIdle(o).refcnt = o.refcnt /\ ResetIdle(o).list = o.list
      BY <2>1, ResetIdleLoose
    <3>3. o.refcnt > 0 => o.list = "none" BY <2>1 DEF Fine, Listed
    <3>4. CASE b \in held
      <4>1. k1.bo[b] = ResetIdle(o) BY <1>3, <2>7, <3>4 DEF WasReset, F
      <4>2. Fine(ResetIdle(o), b, O, k.next, k1.flushing)
        BY <1>1, <2>1, <3>1, <3>2, <3>4 DEF Loose, Fine, Listed, Booked, Flushing, Numbered, NoRq, Foreign
      <4> QED BY <2>1, <3>2, <3>4, <4>1, <4>2
    <3>5. CASE b \notin held
      <4>1. k1.bo[b] = Release(b, ResetIdle(o)) BY <1>3, <2>7, <3>5 DEF WasReset, F
      <4>2. Good(Release(b, ResetIdle(o)), b, O, k.next, k1.flushing)
        BY <1>1, <3>1, <3>2, <3>3, ReleaseGood
      <4> QED BY <3>5, <4>1, <4>2 DEF Good
    <3> QED BY <3>4, <3>5
  <2> QED BY <2>5, <2>6, <2>7
<1>6. k1.requests = k.requests /\ k1.next = k.next /\ k1.wedged = k.wedged
  BY <1>3 DEF WasReset
<1>7. Outstanding(k1) = O BY <1>6 DEF Outstanding
<1>8. ASSUME NEW r \in O PROVE \E b \in Bo : k1.bo[b].batch /\ k1.bo[b].rq = r
  <2>1. PICK b \in Bo : k.bo[b].batch /\ k.bo[b].rq = r BY DEF TrackedBut
  <2>2. r # k.next BY <1>1 DEF Numbered
  <2>3. k1.bo[b] = k.bo[b] BY <1>3, <2>1, <2>2 DEF WasReset
  <2> QED BY <2>1, <2>3
<1>9. ASSUME "scanout" \notin Kinds, NEW b \in Bo \ Large, k1.bo[b].list = "inactive"
      PROVE  k1.need_expire
  <2>1. k1.bo[b].refcnt = 0 /\ b \notin held /\ k1.bo[b].rq = NoRq
    BY <1>5, <1>9 DEF Fine, Listed
  <2>2. CASE k.bo[b].rq # k.next
    <3>1. k1.bo[b] = k.bo[b] BY <1>3, <2>2 DEF WasReset
    <3>2. k.need_expire BY <1>9, <3>1 DEF TrackedBut, Expiring
    <3> QED BY <1>3, <3>2 DEF WasReset
  <2>3. CASE k.bo[b].rq = k.next
    <3>1. b \notin k1.flushing BY <1>5, <2>1 DEF Fine, Flushing, NoRq, Foreign
    <3>2. b \notin F BY <1>3, <3>1 DEF WasReset, F
    <3> QED BY <1>3, <1>9, <2>1, <2>3, <3>2 DEF WasReset, F
  <2> QED BY <2>2, <2>3
<1>10. TrackedBut(k1, held)
  BY <1>1, <1>2, <1>5, <1>6, <1>7, <1>8, <1>9 DEF TrackedBut, Expiring
<1> QED BY <1>5, <1>10 DEF k1

\* kgem_bo_undo.
LEMMA UndoTracked ==
  ASSUME NEW k, NEW S, TrackedBut(k, S), NEW g \in Gpu
  PROVE  /\ TrackedBut(kgem_bo_undo(k, g, S), S)
         /\ \A b \in Bo \cap S : kgem_bo_undo(k, g, S).bo[b].refcnt = k.bo[b].refcnt
  BY ResetTracked DEF kgem_bo_undo

-----------------------------------------------------------------------------
(* One bo that a client holds, or gives up.                                  *)

\* A bo that is on no list replaced, whatever becomes of its last reference.
LEMMA OneBoBut ==
  ASSUME NEW k, Tracked(k), NEW b \in Bo, NEW o,
         Fine(o, b, Outstanding(k), k.next, k.flushing), o.list = "none",
         k.bo[b].batch /\ k.bo[b].rq \in Outstanding(k) => o.batch /\ o.rq = k.bo[b].rq
  PROVE  /\ TrackedBut([k EXCEPT !.bo[b] = o], {b})
         /\ o.refcnt > 0 => Tracked([k EXCEPT !.bo[b] = o])
         /\ [k EXCEPT !.bo[b] = o].bo[b] = o
         /\ [k EXCEPT !.bo[b] = o].next = k.next
<1> DEFINE k1 == [k EXCEPT !.bo[b] = o]
<1>1. Sound(k) /\ o \in SoundBo
  <2>1. o \in BoState /\ (o.batch => o.refcnt > 0) BY DEF Fine, Booked
  <2> QED BY <2>1 DEF Tracked, SoundBo, BatchOwned
<1>2. Sound(k1) BY <1>1, OneBoSound
<1>3. /\ \A c \in Bo : k1.bo[c] = IF c = b THEN o ELSE k.bo[c]
      /\ k1.flushing = k.flushing /\ k1.requests = k.requests /\ k1.next = k.next
      /\ (k1.wedged <=> k.wedged) /\ (k1.need_expire <=> k.need_expire)
  BY <1>1 DEF Sound, Kgem
<1> HIDE DEF k1
<1>4. Outstanding(k1) = Outstanding(k) BY <1>3 DEF Outstanding
<1>5. ASSUME NEW r \in Outstanding(k) PROVE \E c \in Bo : k1.bo[c].batch /\ k1.bo[c].rq = r
  <2>1. PICK c \in Bo : k.bo[c].batch /\ k.bo[c].rq = r BY DEF Tracked
  <2> QED BY <1>3, <2>1
<1>6. Expiring(k1) BY <1>3 DEF Tracked, Expiring
<1>7. ASSUME NEW c \in Bo
      PROVE  /\ Fine(k1.bo[c], c, Outstanding(k), k.next, k.flushing)
             /\ c \in {b} => k1.bo[c].list = "none"
             /\ c \notin {b} => Kept(k1.bo[c], c, Outstanding(k), k.next, k.flushing)
  BY <1>3 DEF Tracked, Good
<1>8. TrackedBut(k1, {b})
  BY <1>2, <1>3, <1>4, <1>5, <1>6, <1>7 DEF Tracked, TrackedBut
<1>9. o.refcnt > 0 => Tracked(k1) BY <1>3, <1>8, TrackedButNone
<1> QED BY <1>3, <1>8, <1>9 DEF k1

\* A client takes a reference, or gives one up.
LEMMA ReferenceTracked ==
  ASSUME NEW k, Tracked(k), NEW b \in Bo, k.bo[b].refcnt > 0,
         NEW n \in Nat, k.bo[b].batch => n > 0
  PROVE  /\ TrackedBut([k EXCEPT !.bo[b].refcnt = n], {b})
         /\ n > 0 => Tracked([k EXCEPT !.bo[b].refcnt = n])
         /\ [k EXCEPT !.bo[b].refcnt = n].bo[b].refcnt = n
<1> DEFINE o == k.bo[b]
           p == [o EXCEPT !.refcnt = n]
           k1 == [k EXCEPT !.bo[b].refcnt = n]
<1>1. Fine(o, b, Outstanding(k), k.next, k.flushing) /\ o \in BoState BY TrackedBo
<1>2. k1 = [k EXCEPT !.bo[b] = p] BY DEF Tracked, Sound, Kgem
<1>3. o.list = "none" BY <1>1 DEF Fine, Listed, BoState
<1>4. p \in BoState /\ p.refcnt = n BY <1>1 DEF BoState
<1>5. /\ p.list = o.list /\ p.exec = o.exec /\ p.write = o.write /\ p.rq = o.rq
      /\ p.needs_flush = o.needs_flush /\ p.batch = o.batch /\ p.snoop = o.snoop
      /\ p.prime = o.prime /\ p.scanout = o.scanout /\ p.reusable = o.reusable
      /\ p.shared = o.shared
  BY <1>1 DEF BoState
<1> HIDE DEF p, k1
<1>6. Fine(p, b, Outstanding(k), k.next, k.flushing)
  BY <1>1, <1>3, <1>4, <1>5 DEF Fine, Attributes, Listed, Booked, Flushing, Recyclable, o
<1>7. p.list = "none" /\ (k.bo[b].batch => p.batch) /\ p.rq = k.bo[b].rq BY <1>3, <1>5 DEF o
<1>8. /\ TrackedBut([k EXCEPT !.bo[b] = p], {b})
      /\ p.refcnt > 0 => Tracked([k EXCEPT !.bo[b] = p])
      /\ [k EXCEPT !.bo[b] = p].bo[b] = p
  BY <1>6, <1>7, OneBoBut
<1> QED BY <1>2, <1>4, <1>8 DEF k1

\* kgem_bo_destroy of the last reference, with the undo before it.
LEMMA UnreferencedTracked ==
  ASSUME NEW k, NEW b \in Bo, TrackedBut(k, {b}), k.bo[b].refcnt = 0, gpu \in Gpu,
         NEW keep \in BOOLEAN
  PROVE  Tracked(Unreferenced(k, b, keep))
<1> DEFINE k1 == IF Recyclable(k.bo[b]) THEN kgem_bo_undo(k, gpu, {b}) ELSE k
           o1 == __kgem_bo_destroy(gpu, b, k1.bo[b], keep)
           bos == [k1.bo EXCEPT ![b] = o1]
           e == Cached({b}, bos)
           k2 == Update(k1, bos, k1.flushing)
           k3 == [k2 EXCEPT !.need_expire = @ \/ e]
<1>1. Unreferenced(k, b, keep) = k3 BY DEF Unreferenced
<1>0. Sound(k) BY DEF TrackedBut
<1>u. Sound(Unreferenced(k, b, keep)) BY <1>0, UnreferencedSound
<1>2. Sound(k3) BY <1>1, <1>u
<1>3. TrackedBut(k1, {b}) /\ k1.bo[b].refcnt = 0 BY UndoTracked
<1> HIDE DEF k1
<1>4. /\ Numbered(Outstanding(k1), k1.next) /\ k1.bo[b].list = "none"
      /\ Fine(k1.bo[b], b, Outstanding(k1), k1.next, k1.flushing)
      /\ Sound(k1) /\ k1 \in Kgem
  BY <1>3 DEF TrackedBut, Sound
<1>5. Good(o1, b, Outstanding(k1), k1.next, IF o1.rq = Foreign THEN k1.flushing ELSE {})
  BY <1>3, <1>4, DestroyGood
<1>6. o1 \in BoState BY <1>5 DEF Good, Fine
<1> HIDE DEF o1
<1>7. bos \in [Bo -> BoState] /\ \A c \in Bo : bos[c] = IF c = b THEN o1 ELSE k1.bo[c]
  BY <1>4, <1>6 DEF Kgem
<1>8. o1.list = "inactive" => e BY <1>7 DEF Cached
<1> HIDE DEF bos, e
<1>9. /\ k2.bo = bos /\ k2.flushing = {c \in k1.flushing : bos[c].rq = Foreign}
      /\ k2.requests = k1.requests /\ k2.next = k1.next /\ k2.wedged = k1.wedged
      /\ k2.need_expire = k1.need_expire
  BY <1>4, <1>7, UpdateFields, SMTT(30)
<1>10. k2 \in Kgem
  <2>1. {c \in k1.flushing : bos[c].rq = Foreign} \in SUBSET Bo BY <1>4 DEF Kgem
  <2> QED BY <1>4, <1>7, <2>1 DEF Update, StillFlushing, Kgem
<1> HIDE DEF k2
<1>11. /\ k3.bo = bos /\ k3.flushing = k2.flushing
       /\ k3.requests = k1.requests /\ k3.next = k1.next /\ k3.wedged = k1.wedged
       /\ k3.need_expire = (k1.need_expire \/ e)
  BY <1>9, <1>10 DEF Kgem
<1> HIDE DEF k3
<1>12. Outstanding(k3) = Outstanding(k1) BY <1>11 DEF Outstanding
<1>13. ASSUME NEW c \in Bo PROVE Good(k3.bo[c], c, Outstanding(k1), k1.next, k3.flushing)
  <2>1. c \in k3.flushing <=> c \in k1.flushing /\ bos[c].rq = Foreign
    BY <1>9, <1>11
  <2>2. CASE c = b
    <3>1. c \in k3.flushing <=> c \in (IF o1.rq = Foreign THEN k1.flushing ELSE {})
      BY <1>7, <2>1, <2>2
    <3> QED BY <1>5, <1>7, <1>11, <2>2, <3>1, GoodFlushing
  <2>3. CASE c # b
    <3>1. Good(k1.bo[c], c, Outstanding(k1), k1.next, k1.flushing)
      BY <1>3, <2>3 DEF TrackedBut, Good
    <3>2. bos[c] = k1.bo[c] BY <1>7, <2>3
    <3>3. c \in k1.flushing => k1.bo[c].rq = Foreign BY <3>1 DEF Good, Fine, Flushing
    <3>4. c \in k3.flushing <=> c \in k1.flushing BY <2>1, <3>2, <3>3
    <3> QED BY <1>11, <3>1, <3>2, <3>4, GoodFlushing
  <2> QED BY <2>2, <2>3
<1>14. ASSUME NEW r \in Outstanding(k1) PROVE \E c \in Bo : k3.bo[c].batch /\ k3.bo[c].rq = r
  <2>1. PICK c \in Bo : k1.bo[c].batch /\ k1.bo[c].rq = r BY <1>3 DEF TrackedBut
  <2>2. ~k1.bo[b].batch BY <1>3, <1>4 DEF Fine, Booked
  <2> QED BY <1>7, <1>11, <2>1, <2>2
<1>15. Expiring(k3) BY <1>3, <1>7, <1>8, <1>11 DEF TrackedBut, Expiring
<1>16. Tracked(k3)
  BY <1>2, <1>3, <1>11, <1>12, <1>13, <1>14, <1>15 DEF TrackedBut, Tracked
<1> QED BY <1>1, <1>16

\* What may be handed to a client: nobody has it, and only the flushing list
\* holds a snooped bo that waits by itself.
Free(k, b, o) ==
  /\ o \in BoState /\ Attributes(o) /\ Booked(o, Outstanding(k), k.next) /\ ~o.batch
  /\ o.snoop /\ o.reusable /\ ~o.prime /\ o.rq = Foreign => b \in k.flushing

\* The client gets the only reference.
LEMMA HandedTracked ==
  ASSUME NEW k, Tracked(k), NEW b \in Bo, ~k.bo[b].batch, NEW o, Free(k, b, o)
  PROVE  Tracked(Handed(k, b, o))
<1> DEFINE p == [o EXCEPT !.refcnt = 1, !.list = "none"]
           F == IF p.rq = Foreign THEN k.flushing ELSE {}
<1>1. /\ o \in BoState /\ Attributes(o) /\ Booked(o, Outstanding(k), k.next) /\ ~o.batch
      /\ o.snoop /\ o.reusable /\ ~o.prime /\ o.rq = Foreign => b \in k.flushing
  BY DEF Free
<1>2. p \in BoState /\ p.refcnt = 1 /\ p.list = "none" BY <1>1, Values DEF BoState
<1>3. /\ p.exec = o.exec /\ p.write = o.write /\ p.rq = o.rq
      /\ p.needs_flush = o.needs_flush /\ p.batch = o.batch /\ p.snoop = o.snoop
      /\ p.prime = o.prime /\ p.scanout = o.scanout /\ p.reusable = o.reusable
      /\ p.shared = o.shared
  BY <1>1 DEF BoState
<1>4. b \in F => p.rq = Foreign OBVIOUS
<1>5. p.rq = Foreign => F = k.flushing OBVIOUS
<1>6. Handed(k, b, o) = Update(k, [k.bo EXCEPT ![b] = p], k.flushing) BY DEF Handed
<1> HIDE DEF p
<1>7. Attributes(p) BY <1>1, <1>3 DEF Attributes
<1>8. Listed(p) BY <1>2 DEF Listed
<1>9. Booked(p, Outstanding(k), k.next) BY <1>1, <1>3 DEF Booked
<1>10. Flushing(p, b, F) BY <1>1, <1>3, <1>4, <1>5 DEF Flushing
<1>11. Kept(p, b, Outstanding(k), k.next, F) BY <1>2 DEF Kept
<1>12. Good(p, b, Outstanding(k), k.next, F) BY <1>2, <1>7, <1>8, <1>9, <1>10, <1>11 DEF Good, Fine
<1>13. Tracked(Update(k, [k.bo EXCEPT ![b] = p], k.flushing))
  BY <1>2, <1>12, OneBoTracked
<1> QED BY <1>6, <1>13

-----------------------------------------------------------------------------
(* Submitting the batch.                                                     *)

\* rq->bo is an inactive bo or a new one; the request has its only reference.
LEMMA CreateBatchTracked ==
  ASSUME NEW k, Tracked(k), NEW c \in Bo, k.bo[c].list \in {"inactive", "freed"}
  PROVE  /\ Tracked(kgem_create_batch(k, c))
         /\ \A b \in Bo \ {c} : kgem_create_batch(k, c).bo[b] = k.bo[b]
         /\ kgem_create_batch(k, c).bo[c].batch
         /\ kgem_create_batch(k, c).bo[c].rq = k.next
         /\ kgem_create_batch(k, c).bo[c].exec
         /\ kgem_create_batch(k, c).next = k.next
         /\ kgem_create_batch(k, c).wedged = k.wedged
         /\ kgem_create_batch(k, c).flushing = k.flushing
<1> DEFINE o == IF k.bo[c].list = "freed" THEN NewBo ELSE k.bo[c]
           p == [o EXCEPT !.refcnt = 1, !.list = "none", !.batch = TRUE,
                          !.exec = TRUE, !.rq = k.next]
           k1 == kgem_create_batch(k, c)
<1>1. /\ Fine(k.bo[c], c, Outstanding(k), k.next, k.flushing) /\ k.bo[c] \in BoState
      /\ Numbered(Outstanding(k), k.next) /\ k \in Kgem /\ k.next \in Rq
  BY TrackedBo, Values DEF Tracked, Sound, Kgem
<1>2. k1 = [k EXCEPT !.bo[c] = p] BY DEF kgem_create_batch
<1>3. o \in BoState /\ Attributes(o) /\ Recyclable(o) /\ ~o.write /\ ~o.needs_flush
  <2>1. CASE k.bo[c].list = "freed"
    <3>1. NewBo \in BoState BY NewBoSound DEF SoundBo
    <3>2. /\ NewBo.reusable /\ ~NewBo.prime /\ ~NewBo.scanout /\ ~NewBo.snoop
          /\ ~NewBo.shared /\ ~NewBo.write /\ ~NewBo.needs_flush
      BY DEF NewBo, Freed
    <3> QED BY <2>1, <3>1, <3>2 DEF Attributes, Recyclable
  <2>2. CASE k.bo[c].list = "inactive"
    <3>1. /\ Attributes(k.bo[c]) /\ Recyclable(k.bo[c]) /\ ~k.bo[c].needs_flush
          /\ ~k.bo[c].write
      BY <1>1, <2>2 DEF Fine, Listed, Booked
    <3> QED BY <1>1, <2>2, <3>1
  <2> QED BY <2>1, <2>2
<1>4. ~(k.bo[c].batch /\ k.bo[c].rq \in Outstanding(k)) /\ c \notin k.flushing
  BY <1>1 DEF Fine, Listed, Booked, Flushing, BoState, Numbered, NoRq, Foreign
<1> HIDE DEF o
<1>5. p \in BoState /\ p.refcnt = 1 /\ p.list = "none" /\ p.batch /\ p.exec /\ p.rq = k.next
  BY <1>1, <1>3, Values DEF BoState
<1>6. /\ p.write = o.write
      /\ p.needs_flush = o.needs_flush /\ p.snoop = o.snoop
      /\ p.prime = o.prime /\ p.scanout = o.scanout /\ p.reusable = o.reusable
      /\ p.shared = o.shared
  BY <1>3 DEF BoState
<1> HIDE DEF p, k1
<1>7. Attributes(p) BY <1>3, <1>6 DEF Attributes
<1>8. k.next # NoRq /\ k.next # Foreign BY <1>1 DEF Numbered, NoRq, Foreign
<1>9. Fine(p, c, Outstanding(k), k.next, k.flushing)
  BY <1>3, <1>4, <1>5, <1>6, <1>7, <1>8 DEF Fine, Listed, Booked, Flushing, Recyclable
<1>10. Tracked([k EXCEPT !.bo[c] = p])
  <2>1. k.bo[c].batch /\ k.bo[c].rq \in Outstanding(k) => p.batch /\ p.rq = k.bo[c].rq
    BY <1>4
  <2>2. p.refcnt > 0 => Tracked([k EXCEPT !.bo[c] = p])
    BY <1>5, <1>9, <2>1, OneBoBut
  <2> QED BY <1>5, <2>2
<1>11. /\ \A b \in Bo : k1.bo[b] = IF b = c THEN p ELSE k.bo[b]
       /\ k1.next = k.next /\ k1.wedged = k.wedged /\ k1.flushing = k.flushing
  BY <1>1, <1>2 DEF Kgem
<1> QED BY <1>2, <1>5, <1>10, <1>11 DEF k1

\* What a commit makes of a bo of the batch.
Committed(o) ==
  IF o.refcnt = 0 /\ ~o.reusable THEN Freed
  ELSE [o EXCEPT !.exec = FALSE, !.write = FALSE, !.domain = "gpu"]

\* It belongs to the new request, or to nobody.
LEMMA CommittedGood ==
  ASSUME NEW o, NEW b, NEW O, NEW nx, Numbered(O, nx), NEW F, Good(o, b, O, nx, F), o.rq = nx
  PROVE  /\ Good(Committed(o), b, O \cup {nx}, nx + 1, F)
         /\ o.batch => Committed(o).batch /\ Committed(o).rq = nx
         /\ Committed(o).list = "inactive" => o.list = "inactive"
         /\ Owned(o) /\ ~o.batch => Owned(Committed(o)) /\ ~Committed(o).batch
         /\ ~Committed(o).exec /\ Committed(o) \in BoState
<1> DEFINE p == [o EXCEPT !.exec = FALSE, !.write = FALSE, !.domain = "gpu"]
<1>1. /\ o \in BoState /\ nx \in Nat /\ nx # NoRq /\ nx # Foreign
      /\ Numbered(O \cup {nx}, nx + 1) /\ b \notin F
  BY DEF Good, Fine, Flushing, Numbered, NoRq, Foreign
<1>2. p \in BoState /\ ~p.exec /\ ~p.write BY <1>1, Values DEF BoState
<1>3. /\ p.refcnt = o.refcnt /\ p.list = o.list /\ p.rq = o.rq
      /\ p.needs_flush = o.needs_flush /\ p.batch = o.batch /\ p.snoop = o.snoop
      /\ p.prime = o.prime /\ p.scanout = o.scanout /\ p.reusable = o.reusable
      /\ p.shared = o.shared
  BY <1>1 DEF BoState
<1> HIDE DEF p
<1>4. nx # nx + 1 BY <1>1
<1>5. Attributes(p) BY <1>3 DEF Good, Fine, Attributes
<1>6. Listed(p) BY <1>1, <1>3 DEF Good, Fine, Listed, Recyclable
<1>7. Booked(p, O \cup {nx}, nx + 1)
  BY <1>1, <1>2, <1>3, <1>4 DEF Good, Fine, Booked, Recyclable
<1>8. Good(p, b, O \cup {nx}, nx + 1, F)
  BY <1>1, <1>2, <1>3, <1>5, <1>6, <1>7 DEF Good, Fine, Flushing, Kept
<1>9. CASE o.refcnt = 0 /\ ~o.reusable
  <2>1. Committed(o) = Freed BY <1>9 DEF Committed
  <2>2. Good(Freed, b, O \cup {nx}, nx + 1, F) BY <1>1, FreedGood
  <2>3. ~o.batch BY <1>9 DEF Good, Fine, Booked
  <2>4. ~Owned(o) BY <1>9, <2>3 DEF Owned
  <2>5. Freed.list = "freed" /\ ~Freed.exec BY DEF Freed
  <2> QED BY <2>1, <2>2, <2>3, <2>4, <2>5 DEF Good, Fine
<1>10. CASE ~(o.refcnt = 0 /\ ~o.reusable)
  <2>1. Committed(o) = p BY <1>10 DEF Committed, p
  <2> QED BY <1>2, <1>3, <1>8, <2>1 DEF Owned
<1> QED BY <1>9, <1>10

\* A bo outside of the batch does not notice.
LEMMA UncommittedGood ==
  ASSUME NEW o, NEW b, NEW O, NEW nx, Numbered(O, nx), NEW F, Good(o, b, O, nx, F), o.rq # nx
  PROVE  Good(o, b, O \cup {nx}, nx + 1, F)
<1>1. nx + 1 \notin O \cup {NoRq, Foreign, nx} BY DEF Numbered, NoRq, Foreign
<1>2. ~o.exec /\ o.rq \in O \cup {NoRq, Foreign} BY DEF Good, Fine, Booked
<1>3. o.rq # nx + 1 BY <1>1, <1>2
<1> QED BY <1>2, <1>3 DEF Good, Fine, Booked, Kept

\* The fields that kgem_commit assigns, in its result k1.
WasCommitted(k, k1) ==
  /\ \A b \in Bo : k1.bo[b] = IF k.bo[b].rq = k.next THEN Committed(k.bo[b]) ELSE k.bo[b]
  /\ \A n \in Ring : k1.requests[n] = k.requests[n] \cup (IF n = k.ring THEN {k.next} ELSE {})
  /\ Outstanding(k1) = Outstanding(k) \cup {k.next}
  /\ k1.next = k.next + 1 /\ k1.flushing = k.flushing /\ k1.wedged = k.wedged
  /\ k1.need_expire = k.need_expire

\* They are these.
LEMMA CommitFields ==
  ASSUME NEW k, Sound(k) PROVE WasCommitted(k, kgem_commit(k))
<1> DEFINE bos == [b \in Bo |-> IF b \in Buffers(k, {k.next}) THEN Committed(k.bo[b]) ELSE k.bo[b]]
           k1 == [k EXCEPT !.bo = bos,
                    !.requests[k.ring] = @ \cup {k.next},
                    !.fence[k.ring] = IF @ = NoFence THEN k.next ELSE @,
                    !.need_retire = TRUE,
                    !.next = @ + 1]
<1>1. kgem_commit(k) = k1 BY DEF kgem_commit, Committed
<1>2. k \in Kgem /\ k.ring \in Ring BY DEF Sound, Kgem
<1>3. \A b \in Bo : bos[b] = IF k.bo[b].rq = k.next THEN Committed(k.bo[b]) ELSE k.bo[b]
  BY DEF Buffers
<1> HIDE DEF bos
<1>4. /\ k1.bo = bos
      /\ k1.requests = [k.requests EXCEPT ![k.ring] = @ \cup {k.next}]
      /\ k1.next = k.next + 1 /\ k1.flushing = k.flushing /\ k1.wedged = k.wedged
      /\ k1.need_expire = k.need_expire
  BY <1>2 DEF Kgem
<1> HIDE DEF k1
<1>5. \A n \in Ring : k1.requests[n] = k.requests[n] \cup (IF n = k.ring THEN {k.next} ELSE {})
  BY <1>2, <1>4 DEF Kgem
<1>6. Outstanding(k1) = Outstanding(k) \cup {k.next}
  BY <1>2, <1>5 DEF Outstanding
<1> QED BY <1>1, <1>3, <1>4, <1>5, <1>6 DEF WasCommitted

\* The batch has its batch bo.
HasBatch(k) == \E b \in Bo : k.bo[b].batch /\ k.bo[b].rq = k.next

\* kgem_commit: the batch becomes a request.
LEMMA CommitTracked ==
  ASSUME NEW k, Tracked(k), k.next <= MaxReq, HasBatch(k)
  PROVE  /\ Tracked(kgem_commit(k))
         /\ \A b \in Bo : /\ Owned(k.bo[b]) /\ ~k.bo[b].batch
                               => Owned(kgem_commit(k).bo[b]) /\ ~kgem_commit(k).bo[b].batch
                          /\ ~kgem_commit(k).bo[b].exec
<1> DEFINE k1 == kgem_commit(k)
           O == Outstanding(k)
           O1 == O \cup {k.next}
<1>1. Sound(k) /\ Numbered(O, k.next) BY DEF Tracked
<1>2. Sound(k1) BY <1>1, CommitSound
<1>3. WasCommitted(k, k1) BY <1>1, CommitFields
<1> HIDE DEF k1
<1>4. Numbered(O1, k.next + 1) BY <1>1 DEF Numbered
<1>5. ASSUME NEW b \in Bo
      PROVE  /\ Good(k1.bo[b], b, O1, k.next + 1, k.flushing)
             /\ k.bo[b].batch => k1.bo[b].batch /\ k1.bo[b].rq = k.bo[b].rq
             /\ k1.bo[b].list = "inactive" => k.bo[b].list = "inactive"
             /\ Owned(k.bo[b]) /\ ~k.bo[b].batch => Owned(k1.bo[b]) /\ ~k1.bo[b].batch
             /\ ~k1.bo[b].exec
  <2>1. Good(k.bo[b], b, O, k.next, k.flushing) BY TrackedBo
  <2>2. CASE k.bo[b].rq = k.next
    <3>1. k1.bo[b] = Committed(k.bo[b]) BY <1>3, <2>2 DEF WasCommitted
    <3> QED BY <1>1, <2>1, <2>2, <3>1, CommittedGood
  <2>3. CASE k.bo[b].rq # k.next
    <3>1. k1.bo[b] = k.bo[b] BY <1>3, <2>3 DEF WasCommitted
    <3>2. ~k.bo[b].exec BY <2>1, <2>3 DEF Good, Fine, Booked
    <3> QED BY <1>1, <2>1, <2>3, <3>1, <3>2, UncommittedGood
  <2> QED BY <2>2, <2>3
<1>6. Outstanding(k1) = O1 /\ k1.next = k.next + 1 /\ k1.flushing = k.flushing
      /\ k1.wedged = k.wedged /\ k1.need_expire = k.need_expire
  BY <1>3 DEF WasCommitted
<1>7. ASSUME NEW r \in O1 PROVE \E b \in Bo : k1.bo[b].batch /\ k1.bo[b].rq = r
  <2>1. PICK b \in Bo : k.bo[b].batch /\ k.bo[b].rq = r BY DEF Tracked, HasBatch
  <2> QED BY <1>5, <2>1
<1>8. Expiring(k1) BY <1>5, <1>6 DEF Tracked, Expiring
<1>9. Tracked(k1) BY <1>2, <1>4, <1>5, <1>6, <1>7, <1>8 DEF Tracked
<1> QED BY <1>5, <1>9 DEF k1

\* A client holds the bo, which is no batch.
Client(o) == Owned(o) /\ ~o.batch

\* A bo that a client holds is on no list.
LEMMA ClientBo ==
  ASSUME NEW k, Tracked(k), NEW b \in Bo, Client(k.bo[b])
  PROVE  k.bo[b].refcnt > 0 /\ k.bo[b].list = "none" /\ ~k.bo[b].batch
<1>1. Listed(k.bo[b]) BY TrackedBo DEF Fine
<1> QED BY <1>1 DEF Client, Owned, Listed

\* What the callers of kgem_commit need to know of a new batch bo.
LEMMA NewBatch ==
  ASSUME NEW k, NEW g \in Gpu, NEW s \in Searches(k, g), Tracked(k),
         NEW c \in InCache(s, "inactive") \cup InCache(s, "freed")
  PROVE  /\ c \in Bo
         /\ Tracked(kgem_create_batch(s, c)) /\ kgem_create_batch(s, c).next = k.next
         /\ kgem_create_batch(s, c).bo[c].batch /\ kgem_create_batch(s, c).bo[c].exec
         /\ kgem_create_batch(s, c).bo[c].rq = k.next
         /\ \A b \in Bo : Client(k.bo[b])
              => b # c /\ Client(s.bo[b]) /\ kgem_create_batch(s, c).bo[b] = s.bo[b]
<1>1. c \in Bo /\ s.bo[c].list \in {"inactive", "freed"} BY DEF InCache
<1>2. Tracked(s) /\ s.next = k.next /\ \A b \in Bo : Steady(k.bo[b], s.bo[b])
  BY SearchesTracked
<1> HIDE DEF Searches
<1>3. ASSUME NEW b \in Bo, Client(k.bo[b])
      PROVE  b # c /\ Client(s.bo[b]) /\ kgem_create_batch(s, c).bo[b] = s.bo[b]
  <2>1. Client(s.bo[b]) BY <1>2, <1>3 DEF Client, Steady
  <2>2. s.bo[b].list = "none" BY <1>2, <2>1, ClientBo
  <2>3. b # c BY <1>1, <2>2
  <2> QED BY <1>1, <1>2, <2>1, <2>3, CreateBatchTracked
<1> QED BY <1>1, <1>2, <1>3, CreateBatchTracked

\* The outcomes of a submission: no bo is in the batch any more.
LEMMA SubmitTracked ==
  ASSUME NEW k, Tracked(k), NEW g \in Gpu, NEW p \in _kgem_submit(k, g)
  PROVE  /\ Tracked(p[1]) /\ p[2] \in Gpu
         /\ \A b \in Bo : (Client(k.bo[b]) => Client(p[1].bo[b])) /\ ~p[1].bo[b].exec
<1>1. ~(k.wedged \/ k.next > MaxReq) BY DEF _kgem_submit
<1>s. PICK s \in Searches(k, g) : \E c \in InCache(s, "inactive") \cup InCache(s, "freed") :
           p = <<kgem_commit(kgem_create_batch(s, c)),
                 Execbuf(Closed(g, s), kgem_create_batch(s, c))>>
  BY <1>1 DEF _kgem_submit
<1>2. PICK c \in InCache(s, "inactive") \cup InCache(s, "freed") :
           p = <<kgem_commit(kgem_create_batch(s, c)),
                 Execbuf(Closed(g, s), kgem_create_batch(s, c))>>
  BY <1>s
<1> DEFINE k1 == kgem_create_batch(s, c)
<1>3. p[1] = kgem_commit(k1) BY <1>2
<1>4. /\ Tracked(k1) /\ k1.next = k.next
      /\ c \in Bo /\ k1.bo[c].batch /\ k1.bo[c].rq = k.next
      /\ \A b \in Bo : Client(k.bo[b]) => Client(s.bo[b]) /\ k1.bo[b] = s.bo[b]
  BY NewBatch
<1> HIDE DEF k1, Searches
<1>5. k1.next <= MaxReq /\ HasBatch(k1)
  <2>1. k.next <= MaxReq BY <1>1, BoundsAssumption DEF Tracked, Sound, Kgem
  <2> QED BY <1>4, <2>1 DEF HasBatch
<1>6. \A b \in Bo : Client(k.bo[b]) => Client(k1.bo[b]) BY <1>4
<1>7. Tracked(p[1]) BY <1>3, <1>4, <1>5, CommitTracked
<1>8. \A b \in Bo : (Client(k1.bo[b]) => Client(p[1].bo[b])) /\ ~p[1].bo[b].exec
  BY <1>3, <1>4, <1>5, CommitTracked DEF Client
<1>9. p[2] \in Gpu BY SubmitSound DEF Tracked
<1> QED BY <1>6, <1>7, <1>8, <1>9

\* kgem_bo_submit: b is not in the batch any more.
LEMMA BoSubmitTracked ==
  ASSUME NEW k, Tracked(k), NEW g \in Gpu, NEW b \in Bo, NEW p \in BoSubmit(k, g, b)
  PROVE  /\ Tracked(p[1]) /\ p[2] \in Gpu
         /\ \A c \in Bo : Client(k.bo[c]) => Client(p[1].bo[c])
         /\ ~p[1].bo[b].exec
<1>1. CASE k.bo[b].exec BY <1>1, SubmitTracked DEF BoSubmit
<1>2. CASE ~k.bo[b].exec
  <2>1. p = <<k, g>> BY <1>2 DEF BoSubmit
  <2> QED BY <1>2, <2>1
<1> QED BY <1>1, <1>2

-----------------------------------------------------------------------------
(* Waiting for one bo.                                                       *)

\* kgem_bo_retire of a bo that a client holds.
LEMMA BoRetireClient ==
  ASSUME NEW k, Tracked(k), NEW g \in Gpu, NEW b \in Bo, Client(k.bo[b]), ~k.bo[b].exec
  PROVE  /\ Tracked(kgem_bo_retire(k, g, b))
         /\ Client(kgem_bo_retire(k, g, b).bo[b])
<1> DEFINE o == k.bo[b]
           O == Outstanding(k)
<1>1. Tracked(kgem_bo_retire(k, g, b)) BY ClientBo, BoRetireTracked
<1>2. Fine(o, b, O, k.next, k.flushing) /\ o \in BoState BY TrackedBo
<1>3. CASE o.rq = NoRq BY <1>1, <1>3 DEF kgem_bo_retire
<1>4. CASE o.rq = Foreign
  <2> DEFINE bos == [k.bo EXCEPT ![b] = __kgem_bo_clear_busy(@)]
  <2>1. kgem_bo_retire(k, g, b) = Update(k, bos, k.flushing)
    BY <1>4 DEF kgem_bo_retire, __kgem_retire_requests_upto, NoRq, Foreign
  <2>2. __kgem_bo_clear_busy(o) \in BoState
    BY <1>2, ClearBusyLoose DEF Loose
  <2>3. bos \in [Bo -> BoState] /\ bos[b] = __kgem_bo_clear_busy(o) /\ k \in Kgem
    BY <2>2 DEF Tracked, Sound, Kgem
  <2> HIDE DEF bos
  <2>4. Update(k, bos, k.flushing).bo = bos BY <2>3, UpdateFields
  <2>5. Client(__kgem_bo_clear_busy(o)) BY <1>2, ClearBusyLoose DEF Client, Owned
  <2> QED BY <1>1, <2>1, <2>3, <2>4, <2>5
<1>5. CASE o.rq \notin {NoRq, Foreign}
  <2> DEFINE R == {r \in O : RingOf(k, r) = RingOf(k, o.rq) /\ r <= o.rq}
  <2>1. kgem_bo_retire(k, g, b) = __kgem_retire_rq(k, g, R)
    BY <1>5 DEF kgem_bo_retire, __kgem_retire_requests_upto
  <2>2. R \in SUBSET O OBVIOUS
  <2> HIDE DEF R
  <2>3. Steady(o, __kgem_retire_rq(k, g, R).bo[b]) BY <2>2, RetireRqSteady
  <2> QED BY <1>1, <2>1, <2>3 DEF Steady, Client
<1> QED BY <1>3, <1>4, <1>5

\* A client clears needs_flush, or sets the domain, of a bo it holds.
LEMMA FlagsTracked ==
  ASSUME NEW k, Tracked(k), NEW b \in Bo, Client(k.bo[b]), NEW d \in Domains
  PROVE  /\ ~k.bo[b].exec \/ ~k.bo[b].write => Tracked([k EXCEPT !.bo[b].needs_flush = FALSE])
         /\ [k EXCEPT !.bo[b].needs_flush = FALSE].bo[b].exec = k.bo[b].exec
         /\ Client([k EXCEPT !.bo[b].needs_flush = FALSE].bo[b])
         /\ Tracked([k EXCEPT !.bo[b].domain = d])
<1> DEFINE o == k.bo[b]
           p == [o EXCEPT !.needs_flush = FALSE]
           q == [o EXCEPT !.domain = d]
<1>1. Fine(o, b, Outstanding(k), k.next, k.flushing) /\ o \in BoState BY TrackedBo
<1>2. o.list = "none" /\ ~o.batch /\ o.refcnt > 0 BY ClientBo
<1>3. /\ [k EXCEPT !.bo[b].needs_flush = FALSE] = [k EXCEPT !.bo[b] = p]
      /\ [k EXCEPT !.bo[b].domain = d] = [k EXCEPT !.bo[b] = q]
  BY DEF Tracked, Sound, Kgem
<1>4. p \in BoState /\ q \in BoState BY <1>1 DEF BoState
<1>5. /\ p.refcnt = o.refcnt /\ p.list = o.list /\ p.rq = o.rq /\ p.exec = o.exec
      /\ p.write = o.write /\ ~p.needs_flush /\ p.batch = o.batch /\ p.snoop = o.snoop
      /\ p.prime = o.prime /\ p.scanout = o.scanout /\ p.reusable = o.reusable
      /\ p.shared = o.shared
  BY <1>1 DEF BoState
<1>6. /\ q.refcnt = o.refcnt /\ q.list = o.list /\ q.rq = o.rq /\ q.exec = o.exec
      /\ q.write = o.write /\ q.needs_flush = o.needs_flush /\ q.batch = o.batch
      /\ q.snoop = o.snoop /\ q.prime = o.prime /\ q.scanout = o.scanout
      /\ q.reusable = o.reusable /\ q.shared = o.shared
  BY <1>1 DEF BoState
<1> HIDE DEF p, q
<1>7. Fine(q, b, Outstanding(k), k.next, k.flushing)
  BY <1>1, <1>2, <1>4, <1>6 DEF Fine, Attributes, Listed, Booked, Flushing, Recyclable
<1>8. ~o.exec \/ ~o.write => Fine(p, b, Outstanding(k), k.next, k.flushing)
  BY <1>1, <1>2, <1>4, <1>5 DEF Fine, Attributes, Listed, Booked, Flushing, Recyclable
<1>9. [k EXCEPT !.bo[b] = p].bo[b] = p BY DEF Tracked, Sound, Kgem
<1>10. Tracked([k EXCEPT !.bo[b] = q]) BY <1>2, <1>6, <1>7, OneBoBut DEF o
<1>11. ~o.exec \/ ~o.write => Tracked([k EXCEPT !.bo[b] = p]) BY <1>2, <1>5, <1>8, OneBoBut DEF o
<1>12. Client(p) BY <1>5 DEF Client, Owned
<1> QED BY <1>3, <1>5, <1>9, <1>10, <1>11, <1>12

\* A bo the CPU waited for.
LEMMA SyncedTracked ==
  ASSUME NEW k, Tracked(k), NEW g \in Gpu, NEW b \in Bo, Client(k.bo[b]), ~k.bo[b].exec,
         NEW domain \in {"cpu", "gtt"}
  PROVE  Tracked(Synced(k, g, b, domain))
<1> DEFINE k0 == [k EXCEPT !.bo[b].needs_flush = FALSE]
           k1 == kgem_bo_retire(k0, g, b)
<1>1. domain \in Domains BY Values
<1>2. Tracked(k0) /\ Client(k0.bo[b]) /\ ~k0.bo[b].exec BY <1>1, FlagsTracked
<1> HIDE DEF k0
<1>3. Tracked(k1) /\ Client(k1.bo[b]) BY <1>2, BoRetireClient
<1> HIDE DEF k1
<1>4. Tracked([k1 EXCEPT !.bo[b].domain = domain]) BY <1>1, <1>3, FlagsTracked
<1> QED BY <1>4 DEF Synced, k0, k1

-----------------------------------------------------------------------------
(* The specification.                                                        *)

\* The bookkeeping of the state.
Books == Tracked(kgem)

\* The state after a call.
LEMMA StepTracked ==
  ASSUME NEW k, Tracked(k), NEW g, Step(k, g) PROVE Books'
  BY DEF Step, Books

\* It holds when kgem_init returns.
LEMMA InitTracked == Init => Books
<1> SUFFICES ASSUME Init PROVE Tracked(kgem) BY DEF Books
<1>1. Sound(kgem) BY InitSound DEF IInv
<1>2. /\ kgem.bo = [b \in Bo |-> Freed] /\ kgem.flushing = {} /\ kgem.next = 1
      /\ kgem.requests = [n \in Ring |-> {}] /\ ~kgem.wedged
  BY DEF Init
<1>3. Outstanding(kgem) = {} BY <1>2 DEF Outstanding
<1>4. Numbered({}, 1) BY DEF Numbered
<1>5. \A b \in Bo : Good(kgem.bo[b], b, {}, 1, {}) BY <1>2, <1>4, FreedGood
<1>6. Expiring(kgem) BY <1>2 DEF Expiring, Freed
<1> QED BY <1>1, <1>2, <1>3, <1>4, <1>5, <1>6 DEF Tracked

\* A bo as a search finds it, or as it is created.
Fresh(o) ==
  /\ o \in BoState /\ Attributes(o) /\ Recyclable(o)
  /\ ~o.batch /\ ~o.exec /\ ~o.write /\ ~o.needs_flush /\ o.rq = NoRq

\* NewBo is fresh.
LEMMA NewBoFresh == Fresh(NewBo)
<1>1. NewBo \in BoState BY NewBoSound DEF SoundBo
<1> QED BY <1>1 DEF NewBo, Freed, Fresh, Attributes, Recyclable

\* A fresh bo can be handed out, as it is, as a framebuffer or snooped.
LEMMA MadeFree ==
  ASSUME NEW k, Tracked(k), NEW b \in Bo, NEW o, Fresh(o),
         NEW p \in MadeScanout(o) \cup MadeSnooped(o)
  PROVE  Free(k, b, p)
<1> DEFINE s == [o EXCEPT !.scanout = TRUE, !.domain = "gtt"]
           n == [o EXCEPT !.snoop = TRUE]
<1>1. /\ o \in BoState /\ Attributes(o) /\ Recyclable(o)
      /\ ~o.batch /\ ~o.exec /\ ~o.write /\ ~o.needs_flush /\ o.rq = NoRq
  BY DEF Fresh
<1>2. k.next # NoRq /\ NoRq # Foreign BY DEF Tracked, Numbered, NoRq, Foreign
<1>3. ASSUME NEW q \in BoState, Attributes(q), ~q.batch, ~q.exec, ~q.write, ~q.needs_flush,
             q.rq = NoRq
      PROVE  Free(k, b, q)
  BY <1>2, <1>3 DEF Free, Booked
<1>4. Free(k, b, o) BY <1>1, <1>3
<1>5. "scanout" \in Kinds => Free(k, b, s)
  <2>1. /\ s \in BoState /\ s.scanout
        /\ s.rq = o.rq /\ s.exec = o.exec /\ s.write = o.write /\ s.needs_flush = o.needs_flush
        /\ s.batch = o.batch /\ s.snoop = o.snoop /\ s.prime = o.prime
        /\ s.reusable = o.reusable /\ s.shared = o.shared
    BY <1>1, Values DEF BoState
  <2> HIDE DEF s
  <2>2. "scanout" \in Kinds => Attributes(s) BY <1>1, <2>1 DEF Attributes, Recyclable
  <2> QED BY <1>1, <1>3, <2>1, <2>2
<1>6. "snoop" \in Kinds /\ ~HasLLC => Free(k, b, n)
  <2>1. /\ n \in BoState /\ n.snoop
        /\ n.rq = o.rq /\ n.exec = o.exec /\ n.write = o.write /\ n.needs_flush = o.needs_flush
        /\ n.batch = o.batch /\ n.scanout = o.scanout /\ n.prime = o.prime
        /\ n.reusable = o.reusable /\ n.shared = o.shared
    BY <1>1 DEF BoState
  <2> HIDE DEF n
  <2>2. "snoop" \in Kinds /\ ~HasLLC => Attributes(n) BY <1>1, <2>1 DEF Attributes, Recyclable
  <2> QED BY <1>1, <1>3, <2>1, <2>2
<1> QED BY <1>4, <1>5, <1>6 DEF MadeScanout, MadeSnooped

\* A bo of a cache can be handed out as it is.
LEMMA CachedFree ==
  ASSUME NEW k, Tracked(k), NEW b \in Bo, k.bo[b].list # "none"
  PROVE  /\ ~k.bo[b].batch /\ Free(k, b, k.bo[b])
         /\ k.bo[b].list = "inactive" => Fresh(k.bo[b])
         /\ k.bo[b].list = "active" /\ ~k.bo[b].exec => Fresh(__kgem_bo_clear_busy(k.bo[b]))
<1> DEFINE o == k.bo[b]
           c == __kgem_bo_clear_busy(o)
<1>1. Fine(o, b, Outstanding(k), k.next, k.flushing) /\ o \in BoState BY TrackedBo
<1>2. ~o.batch BY <1>1 DEF Fine, Listed, Booked, BoState
<1>3. Free(k, b, o) BY <1>1, <1>2 DEF Fine, Flushing, Free
<1>4. o.list = "inactive" => Fresh(o)
  <2>1. k.next # NoRq BY DEF Tracked, Numbered, NoRq
  <2> QED BY <1>1, <1>2, <2>1 DEF Fine, Listed, Booked, Fresh
<1>5. o.list = "active" /\ ~o.exec => Fresh(c)
  <2>1. Recyclable(o) => Recyclable(c) BY <1>1 DEF Recyclable, __kgem_bo_clear_busy, BoState
  <2>2. ~o.exec => Loose(c) /\ c.batch = o.batch BY <1>1, ClearBusyLoose
  <2> HIDE DEF c
  <2> QED BY <1>1, <1>2, <2>1, <2>2 DEF Fine, Listed, Loose, Fresh
<1> QED BY <1>2, <1>3, <1>4, <1>5

\* An object of another process, as kgem_create_for_name and _for_prime make it.
Imported ==
  [NewBo EXCEPT !.prime = TRUE, !.reusable = FALSE, !.shared = TRUE, !.domain = "none"]

\* It may be marked busy, or be displayed or snooped already.
LEMMA ImportFree ==
  ASSUME NEW k, Tracked(k), NEW b \in Bo, "foreign" \in Kinds,
         NEW p \in {kgem_bo_unclean(Imported)} \cup MadeForeign(Imported)
  PROVE  Free(k, b, p)
<1> DEFINE o == Imported
           u == kgem_bo_unclean(o)
           s == [o EXCEPT !.scanout = TRUE]
           n == [o EXCEPT !.snoop = TRUE]
<1>1. k.next # NoRq /\ k.next # Foreign /\ NoRq # Foreign
  BY DEF Tracked, Numbered, NoRq, Foreign
<1>2. NewBo \in BoState BY NewBoSound DEF SoundBo
<1>3. /\ o \in BoState /\ o.prime /\ ~o.reusable /\ o.shared
      /\ o.rq = NewBo.rq /\ o.exec = NewBo.exec /\ o.write = NewBo.write
      /\ o.needs_flush = NewBo.needs_flush /\ o.batch = NewBo.batch
      /\ o.scanout = NewBo.scanout /\ o.snoop = NewBo.snoop
  BY <1>2, Values DEF BoState, Imported
<1>8. p \in {u, o} \/ ("scanout" \in Kinds /\ p = s) \/ ("snoop" \in Kinds /\ ~HasLLC /\ p = n)
  BY DEF MadeForeign
<1> HIDE DEF o
<1>4. ~o.exec /\ ~o.write /\ ~o.batch /\ o.rq = NoRq /\ ~o.needs_flush /\ ~o.scanout /\ ~o.snoop
  BY <1>3 DEF NewBo, Freed
<1>5. /\ u \in BoState /\ u.rq = Foreign /\ u.needs_flush
      /\ u.exec = o.exec /\ u.write = o.write /\ u.batch = o.batch /\ u.prime = o.prime
      /\ u.reusable = o.reusable /\ u.shared = o.shared /\ u.scanout = o.scanout
      /\ u.snoop = o.snoop
  BY <1>3, <1>4, Values DEF BoState, kgem_bo_unclean
<1>6. /\ s \in BoState /\ s.scanout /\ s.rq = o.rq /\ s.needs_flush = o.needs_flush
      /\ s.exec = o.exec /\ s.write = o.write /\ s.batch = o.batch /\ s.prime = o.prime
      /\ s.reusable = o.reusable /\ s.shared = o.shared /\ s.snoop = o.snoop
  BY <1>3 DEF BoState
<1>7. /\ n \in BoState /\ n.snoop /\ n.rq = o.rq /\ n.needs_flush = o.needs_flush
      /\ n.exec = o.exec /\ n.write = o.write /\ n.batch = o.batch /\ n.prime = o.prime
      /\ n.reusable = o.reusable /\ n.shared = o.shared /\ n.scanout = o.scanout
  BY <1>3 DEF BoState
<1> HIDE DEF u, s, n
<1> DEFINE Fit(x) == /\ x \in BoState /\ x.prime /\ ~x.reusable /\ x.shared
                     /\ ~x.batch /\ ~x.exec /\ ~x.write
                     /\ x.rq \in {NoRq, Foreign} /\ (x.rq = NoRq => ~x.needs_flush)
                     /\ x.scanout => "scanout" \in Kinds /\ ~x.snoop
                     /\ x.snoop => "snoop" \in Kinds /\ ~HasLLC
<1>f. Fit(p)
  <2>1. Fit(o) BY <1>3, <1>4
  <2>2. Fit(u) BY <1>1, <1>3, <1>4, <1>5
  <2>3. CASE p = s /\ "scanout" \in Kinds
    <3>1. Fit(s) BY <1>3, <1>4, <1>6, <2>3
    <3> QED BY <3>1, <2>3
  <2>4. CASE p = n /\ "snoop" \in Kinds /\ ~HasLLC
    <3>1. Fit(n) BY <1>3, <1>4, <1>7, <2>4
    <3> QED BY <3>1, <2>4
  <2> HIDE DEF Fit
  <2> QED BY <1>8, <2>1, <2>2, <2>3, <2>4
<1>9. /\ p \in BoState /\ p.prime /\ ~p.reusable /\ p.shared /\ ~p.batch /\ ~p.exec /\ ~p.write
      /\ p.rq \in {NoRq, Foreign} /\ (p.rq = NoRq => ~p.needs_flush)
      /\ p.scanout => "scanout" \in Kinds /\ ~p.snoop
      /\ p.snoop => "snoop" \in Kinds /\ ~HasLLC
  BY <1>f
<1> HIDE DEF Fit
<1>10. Attributes(p) BY <1>9 DEF Attributes, Private
<1> QED BY <1>1, <1>9, <1>10 DEF Free, Booked

\* A bo whose name is given to another process.
Exported(o) == [o EXCEPT !.reusable = FALSE, !.shared = TRUE]

\* The client goes on to hold it.
LEMMA ExportTracked ==
  ASSUME NEW k, Tracked(k), NEW b \in Bo, Client(k.bo[b]), "foreign" \in Kinds,
         NEW p \in {kgem_bo_unclean(Exported(k.bo[b])), Exported(k.bo[b])}
  PROVE  Tracked([k EXCEPT !.bo[b] = p])
<1> DEFINE q == k.bo[b]
           o == Exported(q)
           u == kgem_bo_unclean(o)
<1>1. Fine(q, b, Outstanding(k), k.next, k.flushing) /\ q \in BoState BY TrackedBo
<1>2. k.next # NoRq /\ k.next # Foreign /\ NoRq # Foreign
  BY DEF Tracked, Numbered, NoRq, Foreign
<1>3. q.list = "none" /\ ~q.batch /\ q.refcnt > 0 BY ClientBo
<1>4. /\ o \in BoState /\ ~o.reusable /\ o.shared
      /\ o.refcnt = q.refcnt /\ o.list = q.list /\ o.rq = q.rq /\ o.exec = q.exec
      /\ o.write = q.write /\ o.needs_flush = q.needs_flush /\ o.batch = q.batch
      /\ o.snoop = q.snoop /\ o.prime = q.prime /\ o.scanout = q.scanout
  BY <1>1 DEF BoState, Exported
<1>p. p \in {u, o} OBVIOUS
<1> HIDE DEF o
<1>5. /\ u \in BoState /\ ~u.reusable /\ u.shared /\ u.needs_flush
      /\ u.rq = IF o.rq = NoRq THEN Foreign ELSE o.rq
      /\ u.refcnt = o.refcnt /\ u.list = o.list /\ u.exec = o.exec
      /\ u.write = o.write /\ u.batch = o.batch
      /\ u.snoop = o.snoop /\ u.prime = o.prime /\ u.scanout = o.scanout
  BY <1>4, Values DEF BoState, kgem_bo_unclean
<1> HIDE DEF u
<1>6. /\ p \in BoState /\ ~p.reusable /\ p.shared
      /\ p.rq = q.rq \/ (q.rq = NoRq /\ p.rq = Foreign)
      /\ p.rq = q.rq => p.needs_flush = q.needs_flush \/ p.rq # NoRq
      /\ q.needs_flush => p.needs_flush
      /\ p.refcnt = q.refcnt /\ p.list = q.list /\ p.exec = q.exec
      /\ p.write = q.write /\ p.batch = q.batch
      /\ p.snoop = q.snoop /\ p.prime = q.prime /\ p.scanout = q.scanout
  BY <1>2, <1>4, <1>5, <1>p
<1>7. Attributes(p) BY <1>1, <1>6 DEF Fine, Attributes, Private
<1>8. Fine(p, b, Outstanding(k), k.next, k.flushing)
  BY <1>1, <1>2, <1>3, <1>6, <1>7 DEF Fine, Listed, Booked, Flushing
<1>9. ~k.bo[b].batch /\ p.list = "none" BY <1>3, <1>6
<1> HIDE DEF q
<1>10. p.refcnt > 0 BY <1>3, <1>6
<1> QED BY <1>8, <1>9, <1>10, OneBoBut

\* kgem_create_linear, kgem_create_2d and the import of foreign objects.
LEMMA CreateTracked ==
  ASSUME IInv, Books, NEW b \in Bo,
         \/ KgemCreate(b) \/ KgemReuseInactive(b) \/ KgemReuseActive(b) \/ KgemRetireActive(b)
         \/ KgemReuseSnoop(b) \/ KgemReuseScanout(b) \/ KgemImport(b) \/ KgemExport(b)
  PROVE  Books'
<1>1. Tracked(kgem) /\ gpu \in Gpu BY DEF IInv, Books
<1>2. \A k \in Searched : Tracked(k) BY <1>1, SearchesTracked DEF Searched
<1> HIDE DEF Searched
<1>3. CASE KgemCreate(b)
  <2>1. PICK k \in Searched : /\ k.bo[b].list = "freed"
                              /\ \E o \in MadeScanout(NewBo) \cup MadeSnooped(NewBo) :
                                   Step(Handed(k, b, o), Closed(gpu, k))
    BY <1>3 DEF KgemCreate
  <2>2. PICK o \in MadeScanout(NewBo) \cup MadeSnooped(NewBo) :
             Step(Handed(k, b, o), Closed(gpu, k))
    BY <2>1
  <2>3. Free(k, b, o) BY <1>2, NewBoFresh, MadeFree
  <2>4. ~k.bo[b].batch BY <1>2, <2>1, CachedFree
  <2> QED BY <1>2, <2>2, <2>3, <2>4, HandedTracked, StepTracked
<1>4. CASE KgemReuseInactive(b)
  <2>1. PICK k \in Searched : /\ k.bo[b].list = "inactive"
                              /\ \E o \in MadeScanout(k.bo[b]) \cup MadeSnooped(k.bo[b]) :
                                   Step(Handed(k, b, o), gpu)
    BY <1>4 DEF KgemReuseInactive
  <2>2. PICK o \in MadeScanout(k.bo[b]) \cup MadeSnooped(k.bo[b]) : Step(Handed(k, b, o), gpu)
    BY <2>1
  <2>3. Fresh(k.bo[b]) /\ ~k.bo[b].batch BY <1>2, <2>1, CachedFree
  <2>4. Free(k, b, o) BY <1>2, <2>3, MadeFree
  <2> QED BY <1>2, <2>2, <2>3, <2>4, HandedTracked, StepTracked
<1>5. CASE KgemReuseActive(b)
  <2> DEFINE k == [kgem EXCEPT !.flushing = @ \ {b}]
  <2>1. /\ k.bo = kgem.bo /\ k.flushing = kgem.flushing \ {b} /\ k.requests = kgem.requests
        /\ k.next = kgem.next /\ k.wedged = kgem.wedged /\ k.need_expire = kgem.need_expire
    BY <1>1, SMTT(30) DEF Tracked, Sound, Kgem
  <2>2. Sound(k)
    <3>1. k = [kgem EXCEPT !.bo = kgem.bo, !.flushing = kgem.flushing \ {b}]
      BY <1>1 DEF Tracked, Sound, Kgem
    <3> QED BY <1>1, <3>1, QuietSound, SoundBos DEF Tracked
  <2>3. Step(Handed(k, b, k.bo[b]), gpu) /\ kgem.bo[b].list = "active"
    BY <1>5, <2>1 DEF KgemReuseActive
  <2> HIDE DEF k
  <2>4. ASSUME NEW c \in Bo PROVE Good(k.bo[c], c, Outstanding(kgem), kgem.next, k.flushing)
    <3>1. Good(kgem.bo[c], c, Outstanding(kgem), kgem.next, kgem.flushing) BY <1>1, TrackedBo
    <3>2. CASE c = b
      <4>1. Recyclable(kgem.bo[c]) BY <2>3, <3>1, <3>2 DEF Good, Fine, Listed
      <4>2. c \notin k.flushing BY <2>1, <3>2
      <4> QED BY <2>1, <2>3, <3>1, <3>2, <4>1, <4>2 DEF Good, Fine, Flushing, Kept, Recyclable
    <3>3. CASE c # b
      <4>1. c \in k.flushing <=> c \in kgem.flushing BY <2>1, <3>3
      <4> QED BY <2>1, <3>1, <4>1, GoodFlushing
    <3> QED BY <3>2, <3>3
  <2>5. Tracked(k) BY <1>1, <2>1, <2>2, <2>4, QuietTracked DEF Tracked, Expiring
  <2>6. ~k.bo[b].batch /\ Free(k, b, k.bo[b]) BY <2>1, <2>3, <2>5, CachedFree
  <2> QED BY <2>3, <2>5, <2>6, HandedTracked, StepTracked
<1>6. CASE KgemRetireActive(b)
  <2>1. kgem.bo[b].list = "active" /\ ~kgem.bo[b].exec BY <1>6 DEF KgemRetireActive
  <2>2. PICK o \in MadeScanout(__kgem_bo_clear_busy(kgem.bo[b])) : Step(Handed(kgem, b, o), gpu)
    BY <1>6 DEF KgemRetireActive
  <2>3. Fresh(__kgem_bo_clear_busy(kgem.bo[b])) /\ ~kgem.bo[b].batch BY <1>1, <2>1, CachedFree
  <2>4. Free(kgem, b, o) BY <1>1, <2>2, <2>3, MadeFree
  <2> QED BY <1>1, <2>2, <2>3, <2>4, HandedTracked, StepTracked
<1>7. CASE KgemReuseSnoop(b)
  <2>1. PICK k \in Searched : k.bo[b].list = "snoop" /\ Step(Handed(k, b, k.bo[b]), gpu)
    BY <1>7 DEF KgemReuseSnoop
  <2> QED BY <1>2, <2>1, CachedFree, HandedTracked, StepTracked
<1>8. CASE KgemReuseScanout(b)
  <2>1. kgem.bo[b].list = "scanout" /\ Step(Handed(kgem, b, kgem.bo[b]), gpu)
    BY <1>8 DEF KgemReuseScanout
  <2> QED BY <1>1, <2>1, CachedFree, HandedTracked, StepTracked
<1>9. CASE KgemImport(b)
  <2>1. "foreign" \in Kinds /\ kgem.bo[b].list = "freed" BY <1>9 DEF KgemImport
  <2>2. PICK p \in {kgem_bo_unclean(Imported)} \cup MadeForeign(Imported) :
             Step(Handed(kgem, b, p), gpu)
    BY <1>9 DEF KgemImport, Imported
  <2>3. ~kgem.bo[b].batch BY <1>1, <2>1, CachedFree
  <2>4. Free(kgem, b, p) BY <1>1, <2>1, ImportFree
  <2> QED BY <1>1, <2>2, <2>3, <2>4, HandedTracked, StepTracked
<1>10. CASE KgemExport(b)
  <2>1. "foreign" \in Kinds /\ Client(kgem.bo[b])
    BY <1>10 DEF KgemExport, Held, Referenced, Client, Owned
  <2>2. PICK p \in {kgem_bo_unclean(Exported(kgem.bo[b])), Exported(kgem.bo[b])} :
             Step([kgem EXCEPT !.bo[b] = p], gpu)
    BY <1>10 DEF KgemExport, Exported
  <2>3. Tracked([kgem EXCEPT !.bo[b] = p]) BY <1>1, <2>1, ExportTracked
  <2> QED BY <2>2, <2>3, StepTracked
<1> QED BY <1>3, <1>4, <1>5, <1>6, <1>7, <1>8, <1>9, <1>10

\* Taking and dropping references.
LEMMA ReferencesTracked ==
  ASSUME IInv, Books, NEW b \in Bo, KgemReference(b) \/ KgemReferenceFence(b) \/ KgemDestroy(b)
  PROVE  Books'
<1>1. Tracked(kgem) /\ gpu \in Gpu /\ kgem.bo[b] \in BoState
  BY TrackedBo DEF IInv, Books
<1>2. kgem.bo[b].refcnt \in Nat BY <1>1 DEF BoState
<1>3. CASE KgemReference(b) \/ KgemReferenceFence(b)
  <2>1. Step([kgem EXCEPT !.bo[b].refcnt = kgem.bo[b].refcnt + 1], gpu)
    BY <1>3 DEF KgemReference, KgemReferenceFence
  <2>2. kgem.bo[b].refcnt > 0
    <3>1. Booked(kgem.bo[b], Outstanding(kgem), kgem.next) BY <1>1, TrackedBo DEF Fine
    <3> QED BY <1>2, <1>3, <3>1 DEF KgemReference, KgemReferenceFence, Held, Referenced, Booked
  <2>3. kgem.bo[b].refcnt + 1 \in Nat /\ kgem.bo[b].refcnt + 1 > 0 BY <1>2
  <2>4. Tracked([kgem EXCEPT !.bo[b].refcnt = kgem.bo[b].refcnt + 1])
    BY <1>1, <2>2, <2>3, ReferenceTracked
  <2> QED BY <2>1, <2>4, StepTracked
<1>4. CASE KgemDestroy(b)
  <2> DEFINE n == kgem.bo[b].refcnt - 1
             k == [kgem EXCEPT !.bo[b].refcnt = n]
  <2>1. n \in Nat /\ (kgem.bo[b].batch => n > 0) /\ kgem.bo[b].refcnt > 0
    BY <1>2, <1>4 DEF KgemDestroy, Referenced
  <2>2. IF k.bo[b].refcnt > 0 THEN Step(k, gpu)
        ELSE \E keep \in BOOLEAN : Step(Unreferenced(k, b, keep), gpu)
    BY <1>4 DEF KgemDestroy
  <2> HIDE DEF n
  <2>3. TrackedBut(k, {b}) /\ (n > 0 => Tracked(k)) /\ k.bo[b].refcnt = n
    BY <1>1, <2>1, ReferenceTracked
  <2> HIDE DEF k
  <2>4. CASE n > 0 BY <2>2, <2>3, <2>4, StepTracked
  <2>5. CASE n = 0
    <3>1. PICK keep \in BOOLEAN : Step(Unreferenced(k, b, keep), gpu) BY <2>2, <2>3, <2>5
    <3>2. Tracked(Unreferenced(k, b, keep)) BY <1>1, <2>3, <2>5, UnreferencedTracked
    <3> QED BY <3>1, <3>2, StepTracked
  <2> QED BY <2>1, <2>4, <2>5
<1> QED BY <1>3, <1>4

\* A bo is put on the exec list.
LEMMA AddRelocTracked ==
  ASSUME IInv, Books, NEW b \in Bo, NEW write \in BOOLEAN, KgemAddReloc(b, write)
  PROVE  Books'
<1> DEFINE o == kgem.bo[b]
           o1 == [o EXCEPT !.exec = TRUE, !.rq = kgem.next]
           o2 == IF write THEN [o1 EXCEPT !.write = TRUE, !.needs_flush = TRUE] ELSE o1
           O == Outstanding(kgem)
           F == IF o2.rq = Foreign THEN kgem.flushing ELSE {}
<1>1. Tracked(kgem) BY DEF Books
<1>2. Client(o) BY DEF KgemAddReloc, Held, Referenced, Client, Owned
<1>3. o.list = "none" /\ ~o.batch /\ o.refcnt > 0 BY <1>1, <1>2, ClientBo
<1>4. Fine(o, b, O, kgem.next, kgem.flushing) /\ o \in BoState /\ Numbered(O, kgem.next)
  BY <1>1, TrackedBo
<1>5. kgem.next \in Rq /\ kgem.next # NoRq /\ kgem.next # Foreign
  BY <1>1, <1>4, Values DEF Tracked, Sound, Kgem, Numbered, NoRq, Foreign
<1>6. Step(Update(kgem, [kgem.bo EXCEPT ![b] = o2], kgem.flushing), gpu)
  BY DEF KgemAddReloc
<1> HIDE DEF o
<1>7. /\ o1 \in BoState /\ o1.exec /\ o1.rq = kgem.next
      /\ o1.refcnt = o.refcnt /\ o1.list = o.list /\ o1.write = o.write
      /\ o1.needs_flush = o.needs_flush /\ o1.batch = o.batch /\ o1.snoop = o.snoop
      /\ o1.prime = o.prime /\ o1.scanout = o.scanout /\ o1.reusable = o.reusable
      /\ o1.shared = o.shared
  BY <1>4, <1>5 DEF BoState
<1> HIDE DEF o1
<1>8. /\ o2 \in BoState /\ o2.exec /\ o2.rq = kgem.next
      /\ o2.refcnt = o1.refcnt /\ o2.list = o1.list /\ (o2.write => o1.write \/ o2.needs_flush)
      /\ (o1.needs_flush => o2.needs_flush) /\ o2.batch = o1.batch /\ o2.snoop = o1.snoop
      /\ o2.prime = o1.prime /\ o2.scanout = o1.scanout /\ o2.reusable = o1.reusable
      /\ o2.shared = o1.shared
  BY <1>7 DEF BoState
<1>9. F = {} BY <1>5, <1>8
<1> HIDE DEF o2, F
<1>10. Attributes(o2) BY <1>4, <1>7, <1>8 DEF Fine, Attributes
<1>11. Listed(o2) BY <1>3, <1>7, <1>8 DEF Listed
<1>12. Booked(o2, O, kgem.next) BY <1>3, <1>4, <1>5, <1>7, <1>8 DEF Fine, Booked
<1>13. Flushing(o2, b, F) /\ Kept(o2, b, O, kgem.next, F) BY <1>5, <1>8, <1>9 DEF Flushing, Kept
<1>14. Good(o2, b, O, kgem.next, F) BY <1>8, <1>10, <1>11, <1>12, <1>13 DEF Good, Fine
<1>15. o2.list # "inactive" /\ ~kgem.bo[b].batch BY <1>3, <1>7, <1>8 DEF o
<1>16. Tracked(Update(kgem, [kgem.bo EXCEPT ![b] = o2], kgem.flushing))
  BY <1>1, <1>14, <1>15, OneBoTracked DEF F
<1> QED BY <1>6, <1>16, StepTracked

\* kgem->ring tells which ring the next batch goes to, and nothing of the bo.
LEMMA RingTracked ==
  ASSUME NEW k, Tracked(k), NEW ring \in Ring PROVE Tracked([k EXCEPT !.ring = ring])
<1> DEFINE k1 == [k EXCEPT !.ring = ring]
<1>1. k1 \in Kgem BY DEF Tracked, Sound, Kgem
<1>2. /\ k1.bo = k.bo /\ k1.requests = k.requests /\ k1.fence = k.fence
      /\ k1.flushing = k.flushing /\ (k1.need_retire <=> k.need_retire)
      /\ k1.next = k.next /\ k1.wedged = k.wedged /\ (k.need_expire => k1.need_expire)
  BY DEF Tracked, Sound, Kgem
<1> HIDE DEF k1
<1>3. Armed(k1) BY <1>2 DEF Tracked, Sound, Armed, Outstanding
<1>4. Fenced(k1) BY <1>2 DEF Tracked, Sound, Fenced
<1>5. Sound(k1) BY <1>1, <1>2, <1>3, <1>4 DEF Tracked, Sound
<1>6. Tracked(k1) BY <1>2, <1>5, SameTracked
<1> QED BY <1>6 DEF k1

\* do_execbuf that has to retry: the batch bo stays with its batch.
LEMMA SubmitRetriesTracked ==
  ASSUME IInv, Books, KgemSubmitRetries PROVE Books'
<1> DEFINE done(h) == Completed(h, h.inflight)
           Retried(t, h) ==
             \E p \in Expired(t, h) :
               \/ Step(kgem_commit(p[1]), Execbuf(h, p[1]))
               \/ \E k1 \in CleanedUp(p[1], done(h)) : Step(kgem_commit(k1), Execbuf(done(h), k1))
<1>1. Tracked(kgem) /\ gpu \in Gpu BY DEF IInv, Books
<1>2. kgem.next <= MaxReq BY DEF KgemSubmitRetries
<1>3. PICK s \in Searched : \E c \in InCache(s, "inactive") \cup InCache(s, "freed") :
          \E t \in Searches(kgem_create_batch(s, c), Closed(gpu, s)) : Retried(t, Closed(gpu, s))
  BY DEF KgemSubmitRetries
<1>4. PICK c \in InCache(s, "inactive") \cup InCache(s, "freed") :
          \E t \in Searches(kgem_create_batch(s, c), Closed(gpu, s)) : Retried(t, Closed(gpu, s))
  BY <1>3
<1> DEFINE k == kgem_create_batch(s, c)
           h == Closed(gpu, s)
<1>5. h \in Gpu /\ done(h) \in Gpu BY <1>1, ClosedType, CompletedType
<1>6. s \in Searches(kgem, gpu) BY <1>3 DEF Searched
<1>7. /\ Tracked(k) /\ k.next = kgem.next
      /\ c \in Bo /\ k.bo[c].batch /\ k.bo[c].exec /\ k.bo[c].rq = kgem.next
  BY <1>1, <1>4, <1>6, NewBatch
<1> HIDE DEF Retried, done, k, h, Searches
<1>8. PICK t \in Searches(k, h) : Retried(t, h) BY <1>4 DEF k, h
<1>9. Tracked(t) /\ t.next = kgem.next /\ t.bo[c] = k.bo[c]
  BY <1>5, <1>7, <1>8, SearchesTracked DEF Steady
<1>10. PICK p \in Expired(t, h) :
          \/ Step(kgem_commit(p[1]), Execbuf(h, p[1]))
          \/ \E k1 \in CleanedUp(p[1], done(h)) : Step(kgem_commit(k1), Execbuf(done(h), k1))
  BY <1>8 DEF Retried
<1>11. Tracked(p[1]) /\ p[1].next = kgem.next /\ p[1].bo[c] = k.bo[c]
  BY <1>5, <1>7, <1>9, <1>10, ExpiredTracked DEF Spared
<1>12. ASSUME NEW k1, Tracked(k1), k1.next = kgem.next, k1.bo[c] = k.bo[c], NEW g,
              Step(kgem_commit(k1), g)
       PROVE  Books'
  <2>1. HasBatch(k1) BY <1>7, <1>12 DEF HasBatch
  <2>2. Tracked(kgem_commit(k1)) BY <1>2, <1>12, <2>1, CommitTracked
  <2> QED BY <1>12, <2>2, StepTracked
<1>13. ASSUME NEW k1 \in CleanedUp(p[1], done(h))
       PROVE  Tracked(k1) /\ k1.next = kgem.next /\ k1.bo[c] = k.bo[c]
  BY <1>5, <1>7, <1>11, CleanedUpTracked DEF Spared
<1> QED BY <1>10, <1>11, <1>12, <1>13

\* When the kernel refuses a batch for good, acceleration is disabled.
LEMMA WedgedTracked ==
  ASSUME NEW k, Tracked(k), "pressure" \in Kinds
  PROVE  /\ Tracked([k EXCEPT !.wedged = TRUE])
         /\ [k EXCEPT !.wedged = TRUE].bo = k.bo /\ [k EXCEPT !.wedged = TRUE].next = k.next
         /\ [k EXCEPT !.wedged = TRUE].wedged
<1> DEFINE k1 == [k EXCEPT !.wedged = TRUE]
<1>1. k1 \in Kgem BY DEF Tracked, Sound, Kgem
<1>2. /\ k1.bo = k.bo /\ k1.requests = k.requests /\ k1.next = k.next
      /\ k1.flushing = k.flushing /\ (k1.need_retire <=> k.need_retire) /\ k1.wedged
      /\ (k1.need_expire <=> k.need_expire)
  BY DEF Tracked, Sound, Kgem
<1> HIDE DEF k1
<1>3. Sound(k1)
  <2>1. Armed(k1) BY <1>2 DEF Tracked, Sound, Armed, Outstanding
  <2>2. Fenced(k1) BY <1>2 DEF Fenced
  <2> QED BY <1>1, <1>2, <2>1, <2>2 DEF Tracked, Sound
<1>4. Outstanding(k1) = Outstanding(k) BY <1>2 DEF Outstanding
<1>5. Tracked(k1) BY <1>2, <1>3, <1>4 DEF Tracked, Expiring
<1> QED BY <1>2, <1>5 DEF k1

\* The batch that can not be submitted is dropped, and every request with it.
LEMMA SubmitFailsTracked ==
  ASSUME IInv, Books, KgemSubmitFails PROVE Books'
<1>1. Tracked(kgem) /\ gpu \in Gpu BY DEF IInv, Books
<1>2. "pressure" \in Kinds BY DEF KgemSubmitFails
<1>3. PICK s \in Searched : \E k :
        /\ k = s \/ \E c \in InCache(s, "inactive") \cup InCache(s, "freed") : k = kgem_create_batch(s, c)
        /\ Step(kgem_reset(kgem_cleanup([k EXCEPT !.wedged = TRUE]), Closed(gpu, s), {}), Closed(gpu, s))
  BY DEF KgemSubmitFails
<1>4. PICK k :
        /\ k = s \/ \E c \in InCache(s, "inactive") \cup InCache(s, "freed") : k = kgem_create_batch(s, c)
        /\ Step(kgem_reset(kgem_cleanup([k EXCEPT !.wedged = TRUE]), Closed(gpu, s), {}), Closed(gpu, s))
  BY <1>3
<1>5. Closed(gpu, s) \in Gpu BY <1>1, ClosedType
<1> DEFINE k1 == [k EXCEPT !.wedged = TRUE]
           k2 == kgem_cleanup(k1)
           k3 == kgem_reset(k2, Closed(gpu, s), {})
<1>6. s \in Searches(kgem, gpu) BY <1>3 DEF Searched
<1> HIDE DEF Searches, Searched
<1>7. Tracked(k) BY <1>1, <1>4, <1>6, SearchesTracked, NewBatch
<1>8. Tracked(k1) /\ k1.wedged BY <1>2, <1>7, WedgedTracked
<1> HIDE DEF k1
<1>9. Tracked(k2) BY <1>8, CleanupTracked
<1> HIDE DEF k2
<1>10. TrackedBut(k3, {}) BY <1>5, <1>9, ResetTracked, TrackedButNone
<1> HIDE DEF k3
<1>11. Tracked(k3) BY <1>10, TrackedButNone
<1>12. Step(k3, Closed(gpu, s)) BY <1>4 DEF k1, k2, k3
<1> QED BY <1>11, <1>12, StepTracked

\* Building, submitting and discarding a batch.
LEMMA BatchTracked ==
  ASSUME IInv, Books,
         \/ \E b \in Bo, write \in BOOLEAN : KgemAddReloc(b, write)
         \/ \E b \in Bo, ring \in Ring : KgemSetMode(b, ring)
         \/ \E S \in SUBSET Bo : KgemUndo(S)
         \/ KgemSubmit \/ KgemSubmitRetries \/ KgemSubmitFails
  PROVE  Books'
<1>1. Tracked(kgem) /\ gpu \in Gpu BY DEF IInv, Books
<1>2. ASSUME NEW b \in Bo, NEW ring \in Ring, KgemSetMode(b, ring) PROVE Books'
  <2>1. PICK semaphore \in BOOLEAN :
          \E k \in {kgem, kgem_ring_is_idle(kgem, gpu, kgem.ring, semaphore)} :
          \/ \E p \in _kgem_submit(k, gpu) : Step([p[1] EXCEPT !.ring = ring], p[2])
          \/ Step([k EXCEPT !.ring = ring], gpu)
    BY <1>2 DEF KgemSetMode
  <2> PICK k \in {kgem, kgem_ring_is_idle(kgem, gpu, kgem.ring, semaphore)} :
          \/ \E p \in _kgem_submit(k, gpu) : Step([p[1] EXCEPT !.ring = ring], p[2])
          \/ Step([k EXCEPT !.ring = ring], gpu)
    BY <2>1
  <2>2. kgem.ring \in Ring BY <1>1 DEF Tracked, Sound, Kgem
  <2>3. Tracked(k) BY <1>1, <2>2, KgemRingIsIdleTracked
  <2>4. \A p \in _kgem_submit(k, gpu) : Tracked([p[1] EXCEPT !.ring = ring])
    BY <1>1, <2>3, SubmitTracked, RingTracked
  <2>5. Tracked([k EXCEPT !.ring = ring]) BY <2>3, RingTracked
  <2> QED BY <2>4, <2>5, StepTracked
<1>3. ASSUME NEW S \in SUBSET Bo, KgemUndo(S) PROVE Books'
  <2>1. \A b \in Bo \cap S : Client(kgem.bo[b])
    BY <1>3 DEF KgemUndo, Held, Referenced, Client, Owned
  <2>2. \A b \in Bo \cap S : kgem.bo[b].refcnt > 0 /\ kgem.bo[b].list = "none"
    BY <1>1, <2>1, ClientBo
  <2>3. TrackedBut(kgem, S) BY <1>1, <2>2 DEF Tracked, TrackedBut, Good
  <2>4. /\ TrackedBut(kgem_bo_undo(kgem, gpu, S), S)
        /\ \A b \in Bo \cap S : kgem_bo_undo(kgem, gpu, S).bo[b].refcnt = kgem.bo[b].refcnt
    BY <1>1, <2>3, UndoTracked
  <2>5. Tracked(kgem_bo_undo(kgem, gpu, S)) BY <2>2, <2>4, TrackedButNone
  <2> QED BY <1>3, <2>5, StepTracked DEF KgemUndo
<1>4. CASE KgemSubmit
  <2>1. PICK p \in _kgem_submit(kgem, gpu) : Step(p[1], p[2]) BY <1>4 DEF KgemSubmit
  <2> QED BY <1>1, <2>1, SubmitTracked, StepTracked
<1> QED BY <1>2, <1>3, <1>4, AddRelocTracked, SubmitRetriesTracked, SubmitFailsTracked

\* kgem_scanout_flush: the kernel is asked about a framebuffer.
Flushed(g, b, o) ==
  LET o1 == IF o.rq # NoRq /\ ~Busy(g, b) THEN __kgem_bo_clear_busy(o) ELSE o
  IN [o1 EXCEPT !.domain = "none", !.needs_flush = FALSE]

\* A client goes on to hold it.
LEMMA ScanoutFlushTracked ==
  ASSUME NEW k, Tracked(k), NEW g, NEW b \in Bo, Client(k.bo[b]), ~k.bo[b].exec
  PROVE  Tracked(Update(k, [k.bo EXCEPT ![b] = Flushed(g, b, k.bo[b])], k.flushing))
<1> DEFINE o == k.bo[b]
           o1 == IF o.rq # NoRq /\ ~Busy(g, b) THEN __kgem_bo_clear_busy(o) ELSE o
           p == [o1 EXCEPT !.domain = "none", !.needs_flush = FALSE]
           F == IF p.rq = Foreign THEN k.flushing ELSE {}
<1>1. p = Flushed(g, b, o) BY DEF Flushed
<1>2. /\ Fine(o, b, Outstanding(k), k.next, k.flushing) /\ o \in BoState
      /\ Numbered(Outstanding(k), k.next)
  BY TrackedBo
<1>3. o.list = "none" /\ ~o.batch /\ o.refcnt > 0 BY ClientBo
<1>4. o1 = o \/ o1 = __kgem_bo_clear_busy(o) OBVIOUS
<1>5. /\ o1 \in BoState /\ (o1.rq = o.rq \/ o1.rq = NoRq)
      /\ o1.refcnt = o.refcnt /\ o1.list = o.list /\ o1.exec = o.exec
      /\ o1.write = o.write /\ o1.batch = o.batch /\ o1.snoop = o.snoop
      /\ o1.prime = o.prime /\ o1.scanout = o.scanout /\ o1.reusable = o.reusable
      /\ o1.shared = o.shared
  <2>1. CASE o1 = o BY <1>2, <2>1
  <2>2. CASE o1 = __kgem_bo_clear_busy(o)
    <3> DEFINE c == __kgem_bo_clear_busy(o)
    <3> HIDE DEF o
    <3>1. c \in BoState /\ c.rq = NoRq BY <1>2, Values DEF __kgem_bo_clear_busy, BoState
    <3>2. /\ c.refcnt = o.refcnt /\ c.list = o.list /\ c.exec = o.exec
          /\ c.write = o.write /\ c.batch = o.batch /\ c.snoop = o.snoop
          /\ c.prime = o.prime /\ c.scanout = o.scanout /\ c.reusable = o.reusable
          /\ c.shared = o.shared
      BY <1>2 DEF __kgem_bo_clear_busy, BoState
    <3> HIDE DEF c
    <3>3. o1 = c BY <2>2 DEF c
    <3> HIDE DEF o1
    <3> QED BY <3>1, <3>2, <3>3
  <2> QED BY <1>4, <2>1, <2>2
<1> HIDE DEF o, o1
<1>6. /\ p \in BoState /\ ~p.needs_flush /\ p.rq = o1.rq
      /\ p.refcnt = o1.refcnt /\ p.list = o1.list /\ p.exec = o1.exec
      /\ p.write = o1.write /\ p.batch = o1.batch /\ p.snoop = o1.snoop
      /\ p.prime = o1.prime /\ p.scanout = o1.scanout /\ p.reusable = o1.reusable
      /\ p.shared = o1.shared
  BY <1>5, Values DEF BoState
<1> HIDE DEF p
<1>7. Attributes(p) BY <1>2, <1>5, <1>6 DEF Fine, Attributes
<1>8. Listed(p) BY <1>3, <1>5, <1>6 DEF Listed
<1>9. Booked(p, Outstanding(k), k.next)
  <2>1. ~o.exec /\ ~o.write /\ k.next # NoRq BY <1>2 DEF o, Fine, Booked, Numbered, NoRq
  <2> QED BY <1>2, <1>3, <1>5, <1>6, <2>1 DEF Fine, Booked
<1>10. Flushing(p, b, F) BY <1>2, <1>5, <1>6 DEF Fine, Flushing, NoRq, Foreign
<1>11. Good(p, b, Outstanding(k), k.next, F)
  BY <1>3, <1>5, <1>6, <1>7, <1>8, <1>9, <1>10 DEF Good, Fine, Kept
<1>12. p.list # "inactive" /\ ~k.bo[b].batch BY <1>3, <1>5, <1>6 DEF o
<1>13. Tracked(Update(k, [k.bo EXCEPT ![b] = p], k.flushing))
  BY <1>11, <1>12, OneBoTracked DEF F
<1> QED BY <1>1, <1>13 DEF o

\* A caller tells that a bo is busy, or idle.
LEMMA MarkBusyTracked ==
  ASSUME IInv, Books, NEW b \in Bo, KgemBoMarkBusy(b) PROVE Books'
<1> DEFINE o == kgem.bo[b]
           busy == [o EXCEPT !.needs_flush = TRUE, !.rq = IF @ = NoRq THEN Foreign ELSE @]
           F == IF o.rq = NoRq THEN kgem.flushing \cup {b} ELSE kgem.flushing
           k == [kgem EXCEPT !.bo[b] = busy, !.flushing = F,
                             !.need_retire = @ \/ o.rq = NoRq]
<1>1. Tracked(kgem) BY DEF Books
<1>2. Client(o) /\ ~o.exec BY DEF KgemBoMarkBusy, Held, Referenced, Client, Owned
<1>3. o.list = "none" /\ ~o.batch /\ o.refcnt > 0 BY <1>1, <1>2, ClientBo
<1>4. /\ Fine(o, b, Outstanding(kgem), kgem.next, kgem.flushing) /\ o \in BoState
      /\ Numbered(Outstanding(kgem), kgem.next)
  BY <1>1, TrackedBo
<1>5. CASE Busy(gpu, b)
  <2>1. Step(k, gpu) BY <1>5 DEF KgemBoMarkBusy
  <2>2. kgem' = k BY <2>1 DEF Step
  <2>3. Sound(k)
    <3>1. IInv' BY SyncActions
    <3> QED BY <2>2, <3>1 DEF IInv
  <2>4. /\ \A c \in Bo : k.bo[c] = IF c = b THEN busy ELSE kgem.bo[c]
        /\ k.requests = kgem.requests /\ k.flushing = F /\ k.next = kgem.next
        /\ k.wedged = kgem.wedged /\ k.need_expire = kgem.need_expire
    BY <1>1 DEF Tracked, Sound, Kgem
  <2> HIDE DEF k
  <2>5. ASSUME NEW c \in Bo PROVE Good(k.bo[c], c, Outstanding(kgem), kgem.next, k.flushing)
    <3>1. CASE c # b
      <4>1. Good(kgem.bo[c], c, Outstanding(kgem), kgem.next, kgem.flushing) BY <1>1, TrackedBo
      <4>2. c \in k.flushing <=> c \in kgem.flushing BY <2>4, <3>1
      <4>3. k.bo[c] = kgem.bo[c] BY <2>4, <3>1
      <4> QED BY <4>1, <4>2, <4>3, GoodFlushing
    <3>2. CASE c = b
      <4>1. k.bo[c] = busy BY <2>4, <3>2
      <4>2. b \in F <=> b \in kgem.flushing \/ o.rq = NoRq OBVIOUS
      <4> HIDE DEF o, F
      <4>3. /\ busy \in BoState /\ busy.needs_flush
            /\ busy.rq = IF o.rq = NoRq THEN Foreign ELSE o.rq
            /\ busy.refcnt = o.refcnt /\ busy.list = o.list /\ busy.exec = o.exec
            /\ busy.write = o.write /\ busy.batch = o.batch /\ busy.snoop = o.snoop
            /\ busy.prime = o.prime /\ busy.scanout = o.scanout /\ busy.reusable = o.reusable
            /\ busy.shared = o.shared
        BY <1>4, Values DEF BoState
      <4> HIDE DEF busy
      <4>4. Attributes(busy) BY <1>4, <4>3 DEF Fine, Attributes
      <4>5. Listed(busy) BY <1>3, <4>3 DEF Listed
      <4>6. kgem.next # NoRq /\ kgem.next # Foreign /\ NoRq # Foreign
        BY <1>4 DEF Numbered, NoRq, Foreign
      <4>7. Booked(busy, Outstanding(kgem), kgem.next)
        BY <1>3, <1>4, <4>3, <4>6 DEF Fine, Booked
      <4>8. Flushing(busy, b, F) BY <1>4, <4>2, <4>3, <4>6 DEF Fine, Flushing
      <4>9. Kept(busy, b, Outstanding(kgem), kgem.next, F) BY <1>3, <4>3 DEF Kept
      <4> QED BY <2>4, <3>2, <4>1, <4>3, <4>4, <4>5, <4>7, <4>8, <4>9 DEF Good, Fine
    <3> QED BY <3>1, <3>2
  <2>6. \A c \in Bo : /\ kgem.bo[c].batch => k.bo[c] = kgem.bo[c]
                      /\ k.bo[c].list = "inactive" => k.bo[c] = kgem.bo[c]
    <3>1. busy.list = o.list BY <1>4 DEF BoState
    <3> QED BY <1>3, <2>4, <3>1
  <2> HIDE DEF o, busy, F
  <2>7. \A c \in Bo : kgem.bo[c].batch /\ kgem.bo[c].rq \in Outstanding(kgem)
                         => k.bo[c].batch /\ k.bo[c].rq = kgem.bo[c].rq
    BY <2>6
  <2>8. "scanout" \notin Kinds =>
          \A c \in Bo \ Large : k.bo[c].list = "inactive" => k.need_expire
    BY <1>1, <2>4, <2>6 DEF Tracked, Expiring
  <2>9. Tracked(k) BY <1>1, <2>3, <2>4, <2>5, <2>7, <2>8, QuietTracked
  <2> QED BY <2>1, <2>9, StepTracked
<1>6. CASE ~Busy(gpu, b)
  <2> DEFINE p == __kgem_bo_clear_busy(o)
  <2>1. Step(Update(kgem, [kgem.bo EXCEPT ![b] = p], kgem.flushing), gpu)
    BY <1>6 DEF KgemBoMarkBusy
  <2>2. Loose(p) /\ p.refcnt = o.refcnt /\ p.list = o.list BY <1>2, <1>4, ClearBusyLoose
  <2>3. p.rq = NoRq /\ NoRq # Foreign BY <2>2 DEF Loose, NoRq, Foreign
  <2> HIDE DEF p
  <2>4. Good(p, b, Outstanding(kgem), kgem.next, {}) BY <1>3, <1>4, <2>2, HeldLooseGood
  <2>5. Good(p, b, Outstanding(kgem), kgem.next, IF p.rq = Foreign THEN kgem.flushing ELSE {})
    BY <2>3, <2>4
  <2>6. p.list # "inactive" BY <1>3, <2>2
  <2>7. Tracked(Update(kgem, [kgem.bo EXCEPT ![b] = p], kgem.flushing))
    BY <1>1, <1>3, <2>5, <2>6, OneBoTracked
  <2> QED BY <2>1, <2>7, StepTracked
<1> QED BY <1>5, <1>6

\* The domain of a client's bo is no part of the bookkeeping.
LEMMA DomainTracked ==
  ASSUME NEW k, Tracked(k), NEW b \in Bo, Client(k.bo[b]), NEW d \in Domains
  PROVE  Tracked([k EXCEPT !.bo[b].domain = d])
BY FlagsTracked

\* A caller that only reads waits for the writers of a bo.
LEMMA ReadSyncedTracked ==
  ASSUME NEW k, Tracked(k), NEW g \in Gpu, NEW b \in Bo, Client(k.bo[b]),
         ~k.bo[b].exec \/ ~k.bo[b].write
  PROVE  Tracked(ReadSynced(k, g, b))
<1> DEFINE k1 == [k EXCEPT !.bo[b].needs_flush = FALSE]
           k2 == IF k.bo[b].exec THEN k1 ELSE __kgem_bo_is_busy(k1, g, b)
<1>1. ReadSynced(k, g, b) = [k2 EXCEPT !.bo[b].domain = "none"] BY DEF ReadSynced
<1>2. "none" \in Domains BY Values
<1>3. Tracked(k1) /\ Client(k1.bo[b]) /\ k1.bo[b].exec = k.bo[b].exec BY <1>2, FlagsTracked
<1> HIDE DEF k1
<1>4. Tracked(k2) /\ Client(k2.bo[b])
  <2>1. CASE k.bo[b].exec BY <1>3, <2>1
  <2>2. CASE ~k.bo[b].exec
    <3>1. Tracked(kgem_bo_retire(k1, g, b)) /\ Client(kgem_bo_retire(k1, g, b).bo[b])
      BY <1>3, <2>2, BoRetireClient
    <3>2. __kgem_bo_is_busy(k1, g, b) \in {k1, kgem_bo_retire(k1, g, b)}
      BY DEF __kgem_bo_is_busy
    <3> QED BY <1>3, <2>2, <3>1, <3>2
  <2> QED BY <2>1, <2>2
<1> HIDE DEF k2
<1>5. Tracked([k2 EXCEPT !.bo[b].domain = "none"]) BY <1>2, <1>4, DomainTracked
<1> QED BY <1>1, <1>5

\* Asking and waiting for one bo.
LEMMA SyncTracked ==
  ASSUME IInv, Books, NEW b \in Bo,
         \/ KgemBoIsBusy(b) \/ KgemBoSyncRead(b) \/ KgemScanoutFlush(b) \/ KgemBoMarkBusy(b)
         \/ \E domain \in {"cpu", "gtt"} : KgemBoSync(b, domain)
  PROVE  Books'
<1>1. Tracked(kgem) /\ gpu \in Gpu BY DEF IInv, Books
<1>2. CASE KgemBoIsBusy(b)
  <2>1. kgem.bo[b].refcnt > 0
    <3>1. kgem.bo[b].refcnt \in Nat BY <1>1, TrackedBo DEF BoState
    <3> QED BY <1>2, <3>1 DEF KgemBoIsBusy, Referenced
  <2> QED BY <1>1, <1>2, <2>1, BoIsBusyTracked, StepTracked DEF KgemBoIsBusy
<1>3. ASSUME NEW domain \in {"cpu", "gtt"}, KgemBoSync(b, domain) PROVE Books'
  <2>1. PICK p \in BoSubmit(kgem, gpu, b) :
          \/ Step(p[1], p[2])
          \/ \E g \in WaitIdle(p[2], b) : Step(Synced(p[1], g, b, domain), g)
    BY <1>3 DEF KgemBoSync
  <2>2. Client(kgem.bo[b]) BY <1>3 DEF KgemBoSync, Held, Referenced, Client, Owned
  <2>3. Tracked(p[1]) /\ p[2] \in Gpu /\ Client(p[1].bo[b]) /\ ~p[1].bo[b].exec
    BY <1>1, <2>2, BoSubmitTracked
  <2>4. ASSUME NEW g \in WaitIdle(p[2], b), Step(Synced(p[1], g, b, domain), g) PROVE Books'
    <3>1. g \in Gpu BY <2>3, WaitType
    <3>2. Tracked(Synced(p[1], g, b, domain)) BY <2>3, <3>1, SyncedTracked
    <3> QED BY <2>4, <3>2, StepTracked
  <2> QED BY <2>1, <2>3, <2>4, StepTracked
<1>4. CASE KgemBoSyncRead(b)
  <2>1. PICK p \in IF kgem.bo[b].needs_flush THEN BoSubmit(kgem, gpu, b) ELSE {<<kgem, gpu>>} :
          \/ Step(p[1], p[2])
          \/ \E g \in WaitWritten(p[2], b) : Step(ReadSynced(p[1], g, b), g)
    BY <1>4 DEF KgemBoSyncRead
  <2>2. Client(kgem.bo[b]) BY <1>4 DEF KgemBoSyncRead, Held, Referenced, Client, Owned
  <2>3. /\ Tracked(p[1]) /\ p[2] \in Gpu /\ Client(p[1].bo[b])
        /\ ~p[1].bo[b].exec \/ ~p[1].bo[b].write
    <3>1. CASE kgem.bo[b].needs_flush
      <4>1. p \in BoSubmit(kgem, gpu, b) BY <2>1, <3>1
      <4> QED BY <1>1, <2>2, <4>1, BoSubmitTracked
    <3>2. CASE ~kgem.bo[b].needs_flush
      <4>1. p = <<kgem, gpu>> BY <2>1, <3>2
      <4>2. ~kgem.bo[b].write BY <1>1, <3>2, TrackedBo DEF Fine, Booked
      <4> QED BY <1>1, <2>2, <4>1, <4>2
    <3> QED BY <3>1, <3>2
  <2>4. ASSUME NEW g \in WaitWritten(p[2], b), Step(ReadSynced(p[1], g, b), g) PROVE Books'
    <3>1. g \in Gpu BY <2>3, WaitType
    <3>2. Tracked(ReadSynced(p[1], g, b)) BY <2>3, <3>1, ReadSyncedTracked
    <3> QED BY <2>4, <3>2, StepTracked
  <2> QED BY <2>1, <2>3, <2>4, StepTracked
<1>5. CASE KgemScanoutFlush(b)
  <2>1. PICK p \in BoSubmit(kgem, gpu, b) :
          Step(Update(p[1], [p[1].bo EXCEPT ![b] = Flushed(p[2], b, p[1].bo[b])], p[1].flushing), p[2])
    BY <1>5, ZenonT(60) DEF KgemScanoutFlush, Flushed
  <2>2. Client(kgem.bo[b]) BY <1>5, ZenonT(60) DEF KgemScanoutFlush, Held, Referenced, Client, Owned
  <2>3. Tracked(p[1]) /\ Client(p[1].bo[b]) /\ ~p[1].bo[b].exec
    BY <1>1, <2>2, BoSubmitTracked
  <2>4. Tracked(Update(p[1], [p[1].bo EXCEPT ![b] = Flushed(p[2], b, p[1].bo[b])], p[1].flushing))
    BY <2>3, ScanoutFlushTracked
  <2> QED BY <2>1, <2>4, StepTracked, ZenonT(60)
<1>6. CASE KgemBoMarkBusy(b) BY <1>6, MarkBusyTracked
<1> QED BY <1>2, <1>3, <1>4, <1>5, <1>6

\* The timers, the block handler, the GPU and the other processes.
LEMMA BackgroundTracked ==
  ASSUME IInv, Books,
         \/ KgemRetire \/ KgemIsIdle \/ KgemExpire \/ KgemCleanupCache
         \/ \E r \in Req : GpuCompletes(r)
         \/ \E b \in Bo : OthersUse(b) \/ OthersFinish(b)
  PROVE  Books'
<1>1. Tracked(kgem) /\ gpu \in Gpu BY DEF IInv, Books
<1>2. CASE KgemRetire
  <2>1. PICK F \in FlushScans(kgem, gpu) : Step(kgem_retire(kgem, gpu, F), gpu)
    BY <1>2 DEF KgemRetire
  <2>2. Alone(kgem, F) BY <1>1, <2>1, ScansTracked
  <2> QED BY <1>1, <2>1, <2>2, RetireTracked, StepTracked
<1>3. CASE KgemIsIdle
  <2>1. kgem.ring \in Ring BY <1>1 DEF Tracked, Sound, Kgem
  <2> QED BY <1>1, <1>3, <2>1, KgemRingIsIdleTracked, StepTracked DEF KgemIsIdle
<1>4. CASE KgemExpire
  <2>1. PICK p \in Expired(kgem, gpu) : Step(p[1], gpu) BY <1>4 DEF KgemExpire
  <2> QED BY <1>1, <2>1, ExpiredTracked, StepTracked
<1>5. CASE KgemCleanupCache
  <2> DEFINE done == Completed(gpu, gpu.inflight)
  <2>1. PICK k \in CleanedUp(kgem, done) : Step(k, done) BY <1>5 DEF KgemCleanupCache
  <2>2. done \in Gpu BY <1>1, CompletedType
  <2> HIDE DEF done
  <2> QED BY <1>1, <2>1, <2>2, CleanedUpTracked, StepTracked
<1>6. ASSUME kgem' = kgem PROVE Books' BY <1>6 DEF Books
<1> QED BY <1>2, <1>3, <1>4, <1>5, <1>6 DEF GpuCompletes, OthersUse, OthersFinish

\* Tracked is inductive, together with Sound.
THEOREM Bookkeeping == Spec => [](IInv /\ Books)
<1>1. Init => IInv /\ Books BY InitSound, InitTracked
<1>2. IInv /\ Books /\ IInv' /\ [Next]_vars => Books'
  <2> SUFFICES ASSUME IInv, Books, [Next]_vars PROVE Books' OBVIOUS
  <2>1. CASE Next
    BY <2>1, CreateTracked, ReferencesTracked, BatchTracked, SyncTracked, BackgroundTracked DEF Next
  <2>2. CASE UNCHANGED vars BY <2>2 DEF vars, Books
  <2> QED BY <2>1, <2>2
<1> QED BY <1>1, <1>2, Invariance, PTL DEF Spec

\* RequestsSound: the exec entry of a bo and its request agree, and bo->rq names
\* no request that has been freed.
THEOREM RequestsAlwaysSound == Spec => []RequestsSound
<1>1. Books => RequestsSound
  <2> SUFFICES ASSUME Tracked(kgem), NEW b \in Bo
               PROVE  /\ kgem.bo[b].exec <=> kgem.bo[b].rq = kgem.next
                      /\ kgem.bo[b].rq \in Outstanding(kgem) \cup {NoRq, Foreign, kgem.next}
    BY DEF Books, RequestsSound, ExecInBatch, RequestsKnown
  <2> QED BY TrackedBo DEF Fine, Booked
<1> QED BY <1>1, Bookkeeping, PTL

\* NoLeak: a reference, the batch, a request, a cache or the flushing list keeps
\* every bo.
THEOREM NothingLeaks == Spec => []NoLeak
<1>1. Books => NoLeak
  <2> SUFFICES ASSUME Tracked(kgem), NEW b \in Bo,
                      kgem.bo[b].refcnt = 0, kgem.bo[b].list = "none"
               PROVE  kgem.bo[b].rq \in Outstanding(kgem) \cup {kgem.next} \/ b \in kgem.flushing
    BY DEF Books, NoLeak
  <2> QED BY TrackedBo DEF Good, Kept
<1> QED BY <1>1, Bookkeeping, PTL

\* BatchHeld: a request owns a reference of its batch bo until it is retired.
THEOREM BatchesHeld == Spec => []BatchHeld
<1>1. Books => BatchHeld
  <2> SUFFICES ASSUME Tracked(kgem), NEW r \in Outstanding(kgem)
               PROVE  \E b \in Bo : kgem.bo[b].batch /\ kgem.bo[b].rq = r /\ kgem.bo[b].refcnt > 0
    BY DEF Books, BatchHeld
  <2>1. PICK b \in Bo : kgem.bo[b].batch /\ kgem.bo[b].rq = r BY DEF Tracked
  <2>2. kgem.bo[b].refcnt > 0 BY <2>1, TrackedBo DEF Fine, Booked
  <2> QED BY <2>1, <2>2
<1> QED BY <1>1, Bookkeeping, PTL

\* CachesSound, as long as no framebuffer and no snooped bo is exported: a bo on
\* a cache list has no owner and carries no trace of its last use.
THEOREM CachesAlwaysSound ==
  ASSUME Private PROVE Spec => []CachesSound
<1>1. Books => CachesSound
  <2> SUFFICES ASSUME Tracked(kgem), NEW b \in Bo
               PROVE  /\ kgem.bo[b].list # "none" => kgem.bo[b].refcnt = 0
                      /\ kgem.bo[b].list \in {"inactive", "snoop"}
                           => /\ kgem.bo[b].rq = NoRq /\ ~kgem.bo[b].needs_flush
                              /\ kgem.bo[b].reusable /\ ~kgem.bo[b].prime /\ ~kgem.bo[b].scanout
                              /\ kgem.bo[b].snoop <=> kgem.bo[b].list = "snoop"
    BY DEF Books, CachesSound, CachesUnowned, CachesReady, InCache
  <2> QED BY TrackedBo DEF Fine, Attributes, Listed, Booked, Recyclable
<1> QED BY <1>1, Bookkeeping, PTL

\* CachesUnowned holds whatever is exported.
THEOREM CachesAlwaysUnowned == Spec => []CachesUnowned
<1>1. Books => CachesUnowned
  <2> SUFFICES ASSUME Tracked(kgem), NEW b \in Bo, kgem.bo[b].list # "none"
               PROVE  kgem.bo[b].refcnt = 0
    BY DEF Books, CachesUnowned
  <2> QED BY TrackedBo DEF Fine, Listed
<1> QED BY <1>1, Bookkeeping, PTL

\* CachedPrivate, under the same condition: no other process holds what the
\* caches hold.
THEOREM CachesPrivate ==
  ASSUME Private PROVE Spec => []CachedPrivate
<1>1. Books => CachedPrivate
  <2> SUFFICES ASSUME Tracked(kgem), NEW b \in Bo, kgem.bo[b].list \in Caches
               PROVE  ~kgem.bo[b].shared
    BY DEF Books, CachedPrivate
  <2>1. Attributes(kgem.bo[b]) /\ Listed(kgem.bo[b]) BY TrackedBo DEF Fine
  <2>2. CASE kgem.bo[b].list \in {"inactive", "active"}
    BY <2>1, <2>2 DEF Attributes, Listed, Recyclable
  <2>3. CASE kgem.bo[b].list = "snoop" BY <2>1, <2>3 DEF Attributes, Listed
  <2>4. CASE kgem.bo[b].list = "scanout" BY <2>1, <2>4 DEF Attributes, Listed, Private
  <2> QED BY <2>2, <2>3, <2>4 DEF Caches
<1> QED BY <1>1, Bookkeeping, PTL

\* ActiveBusy: what the active cache holds has a request to wait for.
THEOREM ActiveAlwaysBusy == Spec => []ActiveBusy
<1>1. Books => ActiveBusy
  <2> SUFFICES ASSUME Tracked(kgem), NEW b \in Bo, kgem.bo[b].list = "active"
               PROVE  kgem.bo[b].rq # NoRq /\ Recyclable(kgem.bo[b])
    BY DEF Books, ActiveBusy, InCache
  <2> QED BY TrackedBo DEF Fine, Listed
<1> QED BY <1>1, Bookkeeping, PTL

\* ExpireArmed, where there are no framebuffers (kgem_cleanup_cache clears
\* need_expire after it may have moved some of them to the inactive cache).
THEOREM ExpireAlwaysArmed ==
  ASSUME "scanout" \notin Kinds PROVE Spec => []ExpireArmed
<1>1. Books => ExpireArmed
  BY DEF Books, Tracked, Expiring, ExpireArmed, InCache
<1> QED BY <1>1, Bookkeeping, PTL

-----------------------------------------------------------------------------
(* What kgem knows of the GPU, for every value of the constants: a request   *)
(* it forgets is complete, a bo it takes to be idle is idle.  kgem asks the  *)
(* kernel about the batch bo of a request, about its fence or about one bo,  *)
(* and concludes from the answer that all older requests of that ring are    *)
(* complete, and that their other bo are idle.                               *)
(*                                                                           *)
(* Agree(k, g) relates a state k of struct kgem to a state g of the kernel:  *)
(* the requests of each ring complete in their order, and bo->rq, bo->domain *)
(* and bo->needs_flush do not hide any use of the bo.                        *)

\* The conditions under which kgem is right about its bo.  Unless batches are
\* discarded or reads overtake each other, bo->rq is the last request that uses
\* the bo; without framebuffers, whose needs_flush kgem_scanout_flush clears, it
\* is at least the last one that writes it.  When the kernel refuses a batch for
\* good everything is dropped, whatever the GPU does.
NeverFails == "pressure" \notin Kinds
Ordered == ~Undo /\ OrderedReads /\ NeverFails /\ Private
Watched == "scanout" \notin Kinds /\ NeverFails /\ Private
Calm == "scanout" \notin Kinds \/ Ordered

Unused(g, b) == \A r \in g.inflight : b \notin g.uses[r]
Unwritten(g, b) == \A r \in g.inflight : b \notin g.writes[r]

\* While request r is in flight, a bo is known to be busy until after r.
Latest(o, g, nx, r) == o.rq \in {Foreign, nx} \/ (o.rq \in g.inflight /\ r <= o.rq)

\* A bo in use tells of every use the GPU makes of it.
Watches(o, b, g, nx) ==
  /\ b \in g.others => o.shared
  /\ o.rq \in g.inflight => b \in g.uses[o.rq]
  /\ Calm /\ o.domain \in {"cpu", "gtt"} => Unused(g, b)
  /\ Watched => \A r \in g.inflight : b \in g.writes[r] => o.needs_flush /\ Latest(o, g, nx, r)
  /\ Ordered => \A r \in g.inflight : b \in g.uses[r] => Latest(o, g, nx, r)
Seen(o, b, g, nx) == o.list # "freed" => Watches(o, b, g, nx)

\* The requests in flight are numbered, and write what they use.
Flying(g, nx) ==
  \A r \in g.inflight : r \in Nat \ {0} /\ r < nx /\ g.writes[r] \subseteq g.uses[r]

\* A ring completes its requests in their order; kgem lists those in flight.
InOrder(k, g) ==
  /\ \A n \in Ring : \A r \in k.requests[n] : r \in g.inflight => g.ring[r] = n
  /\ \A n \in Ring : \A r, s \in k.requests[n] : r < s /\ r \in g.inflight => s \in g.inflight
  /\ k.wedged \/ g.inflight \subseteq Outstanding(k)
  /\ k.wedged => Outstanding(k) = {}

AllSeen(k, g) == \A b \in Bo : Seen(k.bo[b], b, g, k.next)
Agree(k, g) == Flying(g, k.next) /\ InOrder(k, g) /\ AllSeen(k, g)

-----------------------------------------------------------------------------
(* One bo.                                                                   *)

\* NULL, a bo busy on its own and the batch that is built are no request in flight.
LEMMA NotFlying ==
  ASSUME NEW g, NEW nx, nx \in Nat \ {0}, Flying(g, nx)
  PROVE  NoRq \notin g.inflight /\ Foreign \notin g.inflight /\ nx \notin g.inflight
  BY SMT DEF Flying, NoRq, Foreign

\* What the kernel does not report as busy is neither used nor written.
LEMMA IdleUnused ==
  ASSUME NEW g, NEW nx, Flying(g, nx), NEW b, ~Busy(g, b)
  PROVE  Unused(g, b) /\ Unwritten(g, b) /\ b \notin g.others
  BY DEF Busy, Unused, Unwritten, Flying

\* Nor is what it does not report as written.
LEMMA CleanUnwritten ==
  ASSUME NEW g, NEW b, ~Written(g, b) PROVE Unwritten(g, b) /\ b \notin g.others
  BY DEF Written, Unwritten

\* A bo that becomes busier in the eyes of kgem.
LEMMA WatchesGrows ==
  ASSUME NEW g, NEW nx, nx \in Nat \ {0}, Flying(g, nx), NEW b, NEW o, Watches(o, b, g, nx),
         NEW p, o.shared => p.shared, o.needs_flush => p.needs_flush,
         p.rq = o.rq \/ p.rq \in {Foreign, nx},
         p.domain = o.domain \/ p.domain \notin {"cpu", "gtt"}
  PROVE  Watches(p, b, g, nx)
<1>1. NoRq \notin g.inflight /\ Foreign \notin g.inflight /\ nx \notin g.inflight BY NotFlying
<1>2. \A r : Latest(o, g, nx, r) => Latest(p, g, nx, r) BY DEF Latest
<1>3. p.rq \in g.inflight => b \in g.uses[p.rq] BY <1>1 DEF Watches
<1>4. Calm /\ p.domain \in {"cpu", "gtt"} => Unused(g, b) BY DEF Watches
<1>5. Watched => \A r \in g.inflight : b \in g.writes[r] => p.needs_flush /\ Latest(p, g, nx, r)
  BY <1>2 DEF Watches
<1>6. Ordered => \A r \in g.inflight : b \in g.uses[r] => Latest(p, g, nx, r)
  BY <1>2 DEF Watches
<1> QED BY <1>3, <1>4, <1>5, <1>6 DEF Watches

\* Nothing that kgem has to watch for happens to b.
Hushed(g, b) == (Watched => Unwritten(g, b)) /\ (Ordered => Unused(g, b))

\* A bo that kgem takes to be idle.
LEMMA WatchesHushed ==
  ASSUME NEW g, NEW nx, NEW b, Hushed(g, b), NEW p, b \in g.others => p.shared,
         p.rq \notin g.inflight, p.domain \notin {"cpu", "gtt"} \/ Unused(g, b)
  PROVE  Watches(p, b, g, nx)
  BY DEF Watches, Hushed, Unwritten, Unused

\* Idle bo are such.
LEMMA IdleHushed ==
  ASSUME NEW g, NEW nx, Flying(g, nx), NEW b, ~Busy(g, b) PROVE Hushed(g, b)
  BY IdleUnused DEF Hushed

\* So are those whose last request is complete.
LEMMA PastHushed ==
  ASSUME NEW g, NEW nx, NEW b, NEW o, Watches(o, b, g, nx),
         o.rq \notin {Foreign, nx}, o.rq \notin g.inflight
  PROVE  Hushed(g, b)
  BY DEF Watches, Hushed, Latest, Unwritten, Unused

\* The cache list of a bo tells nothing of the GPU.
LEMMA WatchesList ==
  ASSUME NEW g, NEW nx, NEW b, NEW o \in BoState, Watches(o, b, g, nx), NEW l
  PROVE  Watches([o EXCEPT !.list = l], b, g, nx)
<1> DEFINE p == [o EXCEPT !.list = l]
<1>1. p.rq = o.rq /\ p.shared = o.shared /\ p.domain = o.domain /\ p.needs_flush = o.needs_flush
  BY DEF BoState
<1> HIDE DEF p
<1>2. Watches(p, b, g, nx) BY <1>1 DEF Watches, Latest
<1> QED BY <1>2 DEF p

\* A struct that is not in use.
LEMMA FreedSeen ==
  ASSUME NEW b, NEW g, NEW nx PROVE Seen(Freed, b, g, nx)
  BY DEF Seen, Freed

\* kgem_bo_move_to_cache.
LEMMA CachedSeen ==
  ASSUME NEW g, NEW nx, NEW b, NEW o \in BoState, Watches(o, b, g, nx)
  PROVE  Seen(kgem_bo_move_to_cache(b, o), b, g, nx)
<1>1. \A l : Seen([o EXCEPT !.list = l], b, g, nx) BY WatchesList DEF Seen
<1>2. Seen(Freed, b, g, nx) BY FreedSeen
<1>3. kgem_bo_move_to_cache(b, o) \in {Freed, [o EXCEPT !.list = "snoop"],
         [o EXCEPT !.list = "scanout"], [o EXCEPT !.list = "inactive"]}
  BY DEF kgem_bo_move_to_cache, kgem_bo_move_to_snoop, BoState
<1> QED BY <1>1, <1>2, <1>3

\* Release.
LEMMA ReleaseSeen ==
  ASSUME NEW g, NEW nx, NEW b, NEW o \in BoState, Watches(o, b, g, nx)
  PROVE  Seen(Release(b, o), b, g, nx)
  BY CachedSeen DEF Release, Seen

\* __kgem_bo_clear_busy of a bo that the kernel says is idle, or whose last
\* request is complete.
LEMMA ClearedWatches ==
  ASSUME NEW g, NEW nx, nx \in Nat \ {0}, Flying(g, nx), NEW b, NEW o \in BoState,
         b \in g.others => o.shared, Hushed(g, b)
  PROVE  Watches(__kgem_bo_clear_busy(o), b, g, nx)
<1> DEFINE p == __kgem_bo_clear_busy(o)
<1>1. p.rq = NoRq /\ p.shared = o.shared /\ p.domain = "none"
  BY DEF __kgem_bo_clear_busy, BoState
<1> HIDE DEF p
<1>2. Watches(p, b, g, nx) BY <1>1, NotFlying, WatchesHushed
<1> QED BY <1>2 DEF p

\* __kgem_bo_destroy: a bo that leaves for a cache or is freed, after the kernel
\* was asked whether it is busy.
LEMMA DestroySeen ==
  ASSUME NEW g, NEW nx, nx \in Nat \ {0}, Flying(g, nx), NEW b, NEW o \in BoState,
         Watches(o, b, g, nx), NEW keep
  PROVE  Seen(__kgem_bo_destroy(g, b, o, keep), b, g, nx)
<1> DEFINE idle == IF ~o.exec /\ o.rq # NoRq /\ ~Busy(g, b) THEN __kgem_bo_clear_busy(o) ELSE o
           q(p, l) == [p EXCEPT !.list = l]
<1>1. /\ o.prime \in BOOLEAN /\ o.snoop \in BOOLEAN /\ o.scanout \in BOOLEAN
      /\ o.reusable \in BOOLEAN
  BY DEF BoState
<1>2. __kgem_bo_clear_busy(o) \in BoState
  BY Values DEF __kgem_bo_clear_busy, BoState
<1>3. ~Busy(g, b) => Watches(__kgem_bo_clear_busy(o), b, g, nx)
  BY IdleHushed, ClearedWatches DEF Watches
<1>4. idle \in BoState /\ Watches(idle, b, g, nx) BY <1>2, <1>3
<1>5. \A p \in BoState : Watches(p, b, g, nx) => Seen(p, b, g, nx) /\ \A l : Seen(q(p, l), b, g, nx)
  BY WatchesList DEF Seen
<1>6. __kgem_bo_destroy(g, b, o, keep)
        \in {o, Freed, idle, q(idle, "snoop"), q(o, "scanout"), q(idle, "active"), q(idle, "inactive")}
  BY <1>1 DEF __kgem_bo_destroy, kgem_bo_move_to_snoop
<1>7. Seen(Freed, b, g, nx) BY FreedSeen
<1> HIDE DEF idle, q
<1> QED BY <1>4, <1>5, <1>6, <1>7

\* What __kgem_retire_rq leaves of a buffer of a request that is complete.
LEMMA RetireBufferSeen ==
  ASSUME NEW k, NEW g, NEW nx, nx \in Nat \ {0}, Flying(g, nx), NEW b, k.bo[b] \in BoState,
         Watches(k.bo[b], b, g, nx), Hushed(g, b)
  PROVE  Seen(RetireBuffer(k, g, b), b, g, nx)
<1> DEFINE o == k.bo[b]
           idle == [o EXCEPT !.rq = NoRq, !.needs_flush = FALSE, !.domain = "none"]
           p1 == [idle EXCEPT !.refcnt = 0, !.batch = FALSE, !.list = "inactive"]
           p2 == [idle EXCEPT !.refcnt = @ - 1, !.batch = FALSE]
           p3 == [o EXCEPT !.rq = Foreign, !.needs_flush = Written(g, b)]
<1>0. o \in BoState /\ Watches(o, b, g, nx) OBVIOUS
<1>1. RetireBuffer(k, g, b) \in {p1, p2, p3, Release(b, idle)}
  <2>1. o.batch \in BOOLEAN BY <1>0 DEF BoState
  <2>2. CASE o.batch BY <2>2 DEF RetireBuffer
  <2>3. CASE ~o.batch BY <2>3 DEF RetireBuffer
  <2> QED BY <2>1, <2>2, <2>3
<1> HIDE DEF o
<1>2. idle \in BoState /\ idle.rq = NoRq /\ idle.domain = "none" /\ idle.shared = o.shared
  BY <1>0, Values DEF BoState
<1>3. p1.rq = NoRq /\ p1.domain = "none" /\ p1.shared = o.shared
  <2> HIDE DEF idle
  <2> QED BY <1>2 DEF BoState
<1>4. p2.rq = NoRq /\ p2.domain = "none" /\ p2.shared = o.shared
  <2> HIDE DEF idle
  <2> QED BY <1>2 DEF BoState
<1>5. p3.rq = Foreign /\ p3.domain = o.domain /\ p3.shared = o.shared
  BY <1>0 DEF BoState
<1> HIDE DEF idle, p1, p2, p3
<1>6. \A p : p.rq = NoRq /\ p.domain = "none" /\ p.shared = o.shared => Watches(p, b, g, nx)
  BY <1>0, NotFlying, WatchesHushed DEF Watches
<1>7. Watches(idle, b, g, nx) /\ Watches(p1, b, g, nx) /\ Watches(p2, b, g, nx)
  BY <1>2, <1>3, <1>4, <1>6
<1>8. Watches(p3, b, g, nx)
  <2>1. b \in g.others => o.shared BY <1>0 DEF Watches
  <2>2. Calm /\ o.domain \in {"cpu", "gtt"} => Unused(g, b) BY <1>0 DEF Watches
  <2> QED BY <1>5, <2>1, <2>2, NotFlying DEF Watches, Hushed, Unwritten, Unused
<1>9. Seen(Release(b, idle), b, g, nx) BY <1>2, <1>7, ReleaseSeen
<1> QED BY <1>1, <1>7, <1>8, <1>9 DEF Seen

\* What kgem_cleanup leaves of a buffer, when nothing has to be watched.
LEMMA DroppedSeen ==
  ASSUME NEW g, NEW nx, nx \in Nat \ {0}, Flying(g, nx), NEW b, NEW o \in BoState,
         Watches(o, b, g, nx), Hushed(g, b)
  PROVE  Seen(Dropped(o), b, g, nx)
<1> DEFINE n == IF o.batch THEN o.refcnt - 1 ELSE o.refcnt
           p == [__kgem_bo_clear_busy(o) EXCEPT !.refcnt = n, !.batch = FALSE]
<1>1. Dropped(o) \in {Freed, p} BY DEF Dropped
<1>2. p.rq = NoRq /\ p.domain = "none" /\ p.shared = o.shared
  BY DEF __kgem_bo_clear_busy, BoState
<1> HIDE DEF p
<1>3. Watches(p, b, g, nx) BY <1>2, NotFlying, WatchesHushed DEF Watches
<1> QED BY <1>1, <1>3, FreedSeen DEF Seen

\* What kgem_reset leaves of a buffer of the batch: one that is idle or was not
\* written may still be read, one that is busy is watched.
LEMMA ResetSeen ==
  ASSUME NEW g, NEW nx, nx \in Nat \ {0}, Flying(g, nx), NEW b, NEW o \in BoState,
         Watches(o, b, g, nx)
  PROVE  /\ o.rq = nx => Seen(ResetBusy(o), b, g, nx)
         /\ ~Ordered /\ ~(o.needs_flush /\ Busy(g, b))
              => /\ Seen(ResetIdle(o), b, g, nx)
                 /\ Seen(Release(b, ResetIdle(o)), b, g, nx)
<1> DEFINE p == ResetBusy(o)
           q == ResetIdle(o)
<1>1. p.rq = Foreign /\ p.domain = o.domain /\ p.shared = o.shared /\ p.needs_flush = o.needs_flush
  BY DEF ResetBusy, BoState
<1>2. q.rq = NoRq /\ q.domain = "none" /\ q.shared = o.shared /\ q \in BoState
  BY Values DEF ResetIdle, __kgem_bo_clear_busy, BoState
<1> HIDE DEF p, q
<1>3. Seen(p, b, g, nx) BY <1>1, WatchesGrows DEF Seen
<1>4. ASSUME ~Ordered, ~(o.needs_flush /\ Busy(g, b)) PROVE Watches(q, b, g, nx)
  <2>1. Watched => Unwritten(g, b)
    <3>1. CASE ~Busy(g, b) BY <3>1, IdleUnused
    <3>2. CASE ~o.needs_flush BY <3>2 DEF Watches, Unwritten
    <3> QED BY <1>4, <3>1, <3>2
  <2> QED BY <1>2, <1>4, <2>1, NotFlying, WatchesHushed DEF Hushed, Watches
<1>5. Watches(q, b, g, nx) => Seen(q, b, g, nx) /\ Seen(Release(b, q), b, g, nx)
  BY <1>2, ReleaseSeen DEF Seen
<1> QED BY <1>3, <1>4, <1>5 DEF p, q

-----------------------------------------------------------------------------
(* Retiring.                                                                 *)

\* What a state tells of the bo in it.
LEMMA AgreeBo ==
  ASSUME NEW k, Tracked(k), NEW g, Agree(k, g), NEW b \in Bo
  PROVE  /\ k.next \in Nat \ {0} /\ Flying(g, k.next)
         /\ k.bo[b] \in BoState /\ Seen(k.bo[b], b, g, k.next)
         /\ k.bo[b].list # "freed" => Watches(k.bo[b], b, g, k.next)
         /\ k.bo[b].rq # NoRq => k.bo[b].list # "freed"
         /\ k.bo[b].batch => k.bo[b].list # "freed"
         /\ k.bo[b].rq \in Outstanding(k) => k.bo[b].rq \notin {NoRq, Foreign, k.next}
<1>1. k.bo[b] \in BoState /\ Fine(k.bo[b], b, Outstanding(k), k.next, k.flushing)
      /\ Numbered(Outstanding(k), k.next)
  BY TrackedBo
<1>2. Listed(k.bo[b]) /\ Booked(k.bo[b], Outstanding(k), k.next) BY <1>1 DEF Fine
<1>3. k.bo[b].rq # NoRq => k.bo[b].list # "freed" BY <1>2 DEF Listed
<1>4. k.bo[b].batch => k.bo[b].list # "freed" BY <1>2 DEF Listed, Booked
<1>5. k.bo[b].rq \in Outstanding(k) => k.bo[b].rq \notin {NoRq, Foreign, k.next}
  BY <1>1 DEF Numbered, NoRq, Foreign
<1>6. Seen(k.bo[b], b, g, k.next) /\ Flying(g, k.next) BY DEF Agree, AllSeen
<1> QED BY <1>1, <1>3, <1>4, <1>5, <1>6 DEF Seen, Numbered

\* A call that keeps the bo in agreement and forgets complete requests only.
LEMMA QuietAgrees ==
  ASSUME NEW k, NEW g, Flying(g, k.next), InOrder(k, g), NEW k1,
         k1.next = k.next, k1.wedged <=> k.wedged,
         \A n \in Ring : k1.requests[n] \subseteq k.requests[n],
         \A r \in Outstanding(k) \ Outstanding(k1) : r \notin g.inflight,
         \A b \in Bo : Seen(k1.bo[b], b, g, k.next)
  PROVE  Agree(k1, g)
<1>1. Outstanding(k1) \subseteq Outstanding(k) BY DEF Outstanding
<1>2. InOrder(k1, g)
  <2>1. \A n \in Ring : \A r \in k1.requests[n] : r \in g.inflight => g.ring[r] = n
    BY DEF InOrder
  <2>2. \A n \in Ring : \A r, s \in k1.requests[n] : r < s /\ r \in g.inflight => s \in g.inflight
    BY DEF InOrder
  <2>3. k1.wedged \/ g.inflight \subseteq Outstanding(k1) BY DEF InOrder
  <2>4. k1.wedged => Outstanding(k1) = {} BY <1>1 DEF InOrder
  <2> QED BY <2>1, <2>2, <2>3, <2>4 DEF InOrder
<1> QED BY <1>2 DEF Agree, AllSeen

\* The same when the requests stay.
LEMMA SameRequestsAgree ==
  ASSUME NEW k, NEW g, Agree(k, g), NEW k1, k1.next = k.next, k1.wedged <=> k.wedged,
         k1.requests = k.requests, \A b \in Bo : Seen(k1.bo[b], b, g, k.next)
  PROVE  Agree(k1, g)
<1>1. Outstanding(k1) = Outstanding(k) BY DEF Outstanding
<1> QED BY <1>1, QuietAgrees DEF Agree

\* A request whose batch bo is idle is complete.
LEMMA DoneComplete ==
  ASSUME NEW k, Tracked(k), NEW g, Agree(k, g), NEW r \in Outstanding(k), Done(k, g, r)
  PROVE  r \notin g.inflight
<1>1. PICK b \in Bo : k.bo[b].batch /\ k.bo[b].rq = r BY DEF Tracked
<1>2. Watches(k.bo[b], b, g, k.next) BY <1>1, AgreeBo
<1>3. ~Busy(g, b) BY <1>1 DEF Done
<1> QED BY <1>1, <1>2, <1>3 DEF Watches, Busy

\* So are the older ones of its ring.
LEMMA OlderComplete ==
  ASSUME NEW k, Tracked(k), NEW g, Agree(k, g), NEW n \in Ring,
         NEW r \in k.requests[n], r \notin g.inflight, NEW s \in k.requests[n], s <= r
  PROVE  s \notin g.inflight
<1>1. r \in Outstanding(k) /\ s \in Outstanding(k) BY DEF Outstanding
<1>2. r \in Nat /\ s \in Nat BY <1>1 DEF Tracked, Numbered
<1>3. CASE s = r BY <1>3
<1>4. CASE s < r BY <1>4 DEF Agree, InOrder
<1> QED BY <1>2, <1>3, <1>4

\* Retiring complete requests.
LEMMA RetireRqAgrees ==
  ASSUME NEW k, Tracked(k), NEW g \in Gpu, Agree(k, g), NEW R \in SUBSET Outstanding(k),
         R \cap g.inflight = {}
  PROVE  /\ Agree(__kgem_retire_rq(k, g, R), g)
         /\ (__kgem_retire_rq(k, g, R).wedged <=> k.wedged)
<1> DEFINE k1 == __kgem_retire_rq(k, g, R)
<1>1. Retired(k, g, R, k1) BY RetireRqFields DEF Tracked
<1> HIDE DEF k1
<1>2. /\ \A b \in Bo : k1.bo[b] = IF b \in Buffers(k, R) THEN RetireBuffer(k, g, b) ELSE k.bo[b]
      /\ k1.requests = [n \in Ring |-> k.requests[n] \ R]
      /\ Outstanding(k1) = Outstanding(k) \ R
      /\ k1.next = k.next /\ (k1.wedged <=> k.wedged)
  BY <1>1 DEF Retired
<1>3. ASSUME NEW b \in Bo PROVE Seen(k1.bo[b], b, g, k.next)
  <2>0. /\ k.next \in Nat \ {0} /\ Flying(g, k.next)
        /\ k.bo[b] \in BoState /\ Seen(k.bo[b], b, g, k.next)
    BY AgreeBo
  <2>1. CASE b \in Buffers(k, R)
    <3>1. k.bo[b].rq \in R BY <2>1 DEF Buffers
    <3>2. k.bo[b].rq \notin {NoRq, Foreign, k.next} /\ Watches(k.bo[b], b, g, k.next)
      BY <3>1, AgreeBo
    <3>3. k.bo[b].rq \notin g.inflight BY <3>1
    <3>4. Hushed(g, b) BY <3>2, <3>3, PastHushed
    <3>5. Seen(RetireBuffer(k, g, b), b, g, k.next) BY <2>0, <3>2, <3>4, RetireBufferSeen
    <3> QED BY <1>2, <2>1, <3>5
  <2>2. CASE b \notin Buffers(k, R) BY <1>2, <2>0, <2>2
  <2> QED BY <2>1, <2>2
<1>4. \A n \in Ring : k1.requests[n] \subseteq k.requests[n] BY <1>2
<1>5. \A r \in Outstanding(k) \ Outstanding(k1) : r \notin g.inflight BY <1>2
<1>6. Flying(g, k.next) /\ InOrder(k, g) BY DEF Agree
<1>7. Agree(k1, g) BY <1>2, <1>3, <1>4, <1>5, <1>6, QuietAgrees
<1> QED BY <1>2, <1>7 DEF k1

\* The idle bo of the flushing list.
LEMMA RetireFlushingAgrees ==
  ASSUME NEW k, Tracked(k), NEW g, Agree(k, g), NEW F, Alone(k, F),
         \A b \in Bo \cap F : ~Busy(g, b)
  PROVE  /\ Agree(kgem_retire__flushing(k, F), g)
         /\ (kgem_retire__flushing(k, F).wedged <=> k.wedged)
<1> DEFINE k1 == kgem_retire__flushing(k, F)
<1>1. k1.requests = k.requests /\ k1.next = k.next /\ (k1.wedged <=> k.wedged)
  <2>1. k \in Kgem BY DEF Tracked, Sound
  <2> QED BY <2>1 DEF kgem_retire__flushing, Update, Kgem
<1>2. ASSUME NEW b \in Bo PROVE Seen(k1.bo[b], b, g, k.next)
  <2>1. /\ k.next \in Nat \ {0} /\ Flying(g, k.next)
        /\ k.bo[b] \in BoState /\ Seen(k.bo[b], b, g, k.next)
    BY AgreeBo
  <2>2. k1.bo[b] = IF b \in F THEN Release(b, __kgem_bo_clear_busy(k.bo[b])) ELSE k.bo[b]
    BY RetireFlushingSteady
  <2>3. CASE b \in F
    <3>1. b \notin g.others BY <2>1, <2>3, IdleUnused
    <3>2. Hushed(g, b) BY <2>1, <2>3, IdleHushed
    <3>3. Watches(__kgem_bo_clear_busy(k.bo[b]), b, g, k.next)
      BY <2>1, <3>1, <3>2, ClearedWatches
    <3>4. __kgem_bo_clear_busy(k.bo[b]) \in BoState
      BY <2>1, Values DEF __kgem_bo_clear_busy, BoState
    <3>5. Seen(Release(b, __kgem_bo_clear_busy(k.bo[b])), b, g, k.next) BY <3>3, <3>4, ReleaseSeen
    <3> QED BY <2>2, <2>3, <3>5
  <2>4. CASE b \notin F BY <2>1, <2>2, <2>4
  <2> QED BY <2>3, <2>4
<1> HIDE DEF k1
<1>3. Agree(k1, g) BY <1>1, <1>2, SameRequestsAgree
<1> QED BY <1>1, <1>3 DEF k1

\* Fields of struct kgem that tell nothing of the GPU.
LEMMA SameAgrees ==
  ASSUME NEW k, NEW g, Agree(k, g), NEW k1, k1.bo = k.bo, k1.requests = k.requests,
         k1.next = k.next, k1.wedged <=> k.wedged
  PROVE  Agree(k1, g)
  BY SameRequestsAgree DEF Agree, AllSeen

\* One bo replaced.
LEMMA OneBoAgrees ==
  ASSUME NEW k \in Kgem, NEW g, Agree(k, g), NEW b \in Bo, NEW o, Seen(o, b, g, k.next), NEW S
  PROVE  /\ Agree([k EXCEPT !.bo[b] = o], g)
         /\ Agree(Update(k, [k.bo EXCEPT ![b] = o], S), g)
         /\ [k EXCEPT !.bo[b] = o].wedged <=> k.wedged
         /\ Update(k, [k.bo EXCEPT ![b] = o], S).wedged <=> k.wedged
<1> DEFINE bos == [k.bo EXCEPT ![b] = o]
           k1 == [k EXCEPT !.bo[b] = o]
           k2 == Update(k, bos, S)
<1>1. /\ k1.bo = bos /\ k1.requests = k.requests /\ k1.next = k.next /\ k1.wedged = k.wedged
      /\ k2.bo = bos /\ k2.requests = k.requests /\ k2.next = k.next /\ k2.wedged = k.wedged
  BY DEF Kgem, Update
<1>2. \A c \in Bo : bos[c] = IF c = b THEN o ELSE k.bo[c] BY DEF Kgem
<1>3. \A c \in Bo : Seen(k.bo[c], c, g, k.next) BY DEF Agree, AllSeen
<1>4. \A c \in Bo : Seen(bos[c], c, g, k.next) BY <1>2, <1>3
<1> HIDE DEF k1, k2, bos
<1>5. Agree(k1, g) BY <1>1, <1>4, SameRequestsAgree
<1>6. Agree(k2, g) BY <1>1, <1>4, SameRequestsAgree
<1> QED BY <1>1, <1>5, <1>6 DEF k1, k2, bos

\* Retiring the complete requests of both rings.
LEMMA RetireRequestsAgrees ==
  ASSUME NEW k, Tracked(k), NEW g \in Gpu, Agree(k, g)
  PROVE  /\ Agree(kgem_retire__requests(k, g), g)
         /\ kgem_retire__requests(k, g).wedged <=> k.wedged
<1> DEFINE R == UNION {Retirable(k, g, n) : n \in Ring}
<1>1. R \subseteq Outstanding(k) BY DEF Retirable, Outstanding
<1>2. ASSUME NEW r \in R PROVE r \notin g.inflight
  <2>1. r \in Outstanding(k) BY <1>1
  <2>2. PICK n \in Ring : r \in Retirable(k, g, n) OBVIOUS
  <2>3. r \in Nat BY <2>1 DEF Tracked, Numbered
  <2>4. r <= r BY <2>3
  <2>5. Done(k, g, r) BY <2>2, <2>4 DEF Retirable
  <2> QED BY <2>1, <2>5, DoneComplete
<1> HIDE DEF R
<1>3. R \cap g.inflight = {} BY <1>2
<1>4. Agree(__kgem_retire_rq(k, g, R), g) /\ (__kgem_retire_rq(k, g, R).wedged <=> k.wedged)
  BY <1>1, <1>3, RetireRqAgrees
<1> QED BY <1>4 DEF kgem_retire__requests, R

\* kgem_retire.
LEMMA RetireAgrees ==
  ASSUME NEW k, Tracked(k), NEW g \in Gpu, Agree(k, g), NEW F, Alone(k, F),
         \A b \in Bo \cap F : ~Busy(g, b)
  PROVE  /\ Agree(kgem_retire(k, g, F), g)
         /\ kgem_retire(k, g, F).wedged <=> k.wedged
<1> DEFINE k0 == kgem_retire__flushing(k, F)
           k1 == kgem_retire__requests(k0, g)
           a == k1.flushing # {} \/ Outstanding(k1) # {}
           k2 == [k1 EXCEPT !.need_retire = a]
<1>1. Tracked(k0) /\ Agree(k0, g) /\ (k0.wedged <=> k.wedged)
  BY RetireFlushingTracked, RetireFlushingAgrees
<1> HIDE DEF k0
<1>2. Tracked(k1) /\ Agree(k1, g) /\ (k1.wedged <=> k0.wedged)
  BY <1>1, RetireRequestsTracked, RetireRequestsAgrees
<1> HIDE DEF k1
<1>3. /\ k2.bo = k1.bo /\ k2.requests = k1.requests
      /\ k2.next = k1.next /\ k2.wedged = k1.wedged
  BY <1>2 DEF Tracked, Sound, Kgem
<1> HIDE DEF k2
<1>4. Agree(k2, g) BY <1>2, <1>3, SameAgrees
<1>5. k2 = kgem_retire(k, g, F) BY DEF kgem_retire, k0, k1, k2
<1> QED BY <1>1, <1>2, <1>3, <1>4, <1>5

\* Asking whether a ring is idle: what it answers about the newest request, or
\* about that of the fence, is true of the older ones too.
LEMMA RingIsIdleAgrees ==
  ASSUME NEW k, Tracked(k), NEW g \in Gpu, Agree(k, g), NEW n \in Ring, k.requests[n] # {}
  PROVE  /\ Agree(__kgem_ring_is_idle(k, g, n), g)
         /\ __kgem_ring_is_idle(k, g, n).wedged <=> k.wedged
<1> DEFINE fence == k.fence[n]
           R == {r \in k.requests[n] : r <= fence}
           Q == k.requests[n]
           k1 == __kgem_retire_rq(k, g, R)
           k2 == [k1 EXCEPT !.fence[n] = Newest(k, n)]
           K == __kgem_ring_is_idle(k, g, n)
<1>1. k \in Kgem /\ Q \in SUBSET Req /\ Fenced(k) BY DEF Tracked, Sound, Kgem
<1>2. R \subseteq Outstanding(k) /\ Q \subseteq Outstanding(k) BY DEF Outstanding
<1>3. ~k.wedged BY <1>2 DEF Agree, InOrder
<1>4. Newest(k, n) \in Q /\ \A s \in Q : s <= Newest(k, n)
  BY <1>1, LargestRequest DEF Newest
<1>5. CASE fence # NoFence /\ ~Done(k, g, fence)
  <2>1. K = k BY <1>5 DEF __kgem_ring_is_idle, RingIdle
  <2> QED BY <2>1
<1>6. CASE RingIdle(k, g, n)
  <2>1. K = __kgem_retire_rq(k, g, Q) BY <1>6 DEF __kgem_ring_is_idle, RingIdle
  <2>2. Newest(k, n) \notin g.inflight BY <1>2, <1>4, <1>6, DoneComplete DEF RingIdle
  <2>3. \A s \in Q : s \notin g.inflight BY <1>4, <2>2, OlderComplete
  <2> HIDE DEF Q, K
  <2>4. Q \cap g.inflight = {} BY <2>3
  <2>5. Agree(K, g) /\ (K.wedged <=> k.wedged) BY <1>2, <2>1, <2>4, RetireRqAgrees
  <2> QED BY <2>5 DEF K
<1>7. CASE (fence # NoFence => Done(k, g, fence)) /\ ~RingIdle(k, g, n)
  <2>1. K = k2 BY <1>7 DEF __kgem_ring_is_idle
  <2>2. ASSUME NEW s \in R PROVE s \notin g.inflight
    <3>1. s \in Q /\ s <= fence /\ s \in Nat \ {0} BY <1>1, BoundsAssumption DEF Req
    <3>2. fence \in Q
      <4>1. fence \in Q \cup {NoFence} BY <1>1, <1>3 DEF Fenced
      <4>2. fence # NoFence BY <3>1 DEF NoFence
      <4> QED BY <4>1, <4>2
    <3>3. fence \in Nat \ {0} BY <1>1, <3>2, BoundsAssumption DEF Req
    <3>4. Done(k, g, fence) BY <1>7, <3>3 DEF NoFence
    <3>5. fence \notin g.inflight BY <1>2, <3>2, <3>4, DoneComplete
    <3> QED BY <3>1, <3>2, <3>5, OlderComplete
  <2> HIDE DEF R
  <2>3. R \cap g.inflight = {} BY <2>2
  <2>4. Agree(k1, g) /\ (k1.wedged <=> k.wedged) BY <1>2, <2>3, RetireRqAgrees
  <2>5. k1 \in Kgem BY <1>2, RetireRqSound DEF Sound, Tracked
  <2> HIDE DEF k1, K
  <2>6. /\ k2.bo = k1.bo /\ k2.requests = k1.requests
        /\ k2.next = k1.next /\ k2.wedged = k1.wedged
    BY <2>5 DEF Kgem
  <2> HIDE DEF k2
  <2>7. Agree(k2, g) BY <2>4, <2>6, SameAgrees
  <2> QED BY <2>1, <2>4, <2>6, <2>7 DEF K
<1> QED BY <1>5, <1>6, <1>7

\* The other ring is asked first.
LEMMA KgemRingIsIdleAgrees ==
  ASSUME NEW k, Tracked(k), NEW g \in Gpu, Agree(k, g), NEW n \in Ring,
         NEW semaphore \in BOOLEAN
  PROVE  Agree(kgem_ring_is_idle(k, g, n, semaphore), g)
<1> DEFINE other == semaphore /\ k.requests[1 - n] # {}
           k1 == IF other THEN __kgem_ring_is_idle(k, g, 1 - n) ELSE k
<1>1. 1 - n \in Ring BY DEF Ring
<1>2. Tracked(k1) /\ Agree(k1, g) BY <1>1, RingIsIdleTracked, RingIsIdleAgrees
<1>3. k1.requests[n] # {} => Agree(__kgem_ring_is_idle(k1, g, n), g) BY <1>2, RingIsIdleAgrees
<1> QED BY <1>2, <1>3 DEF kgem_ring_is_idle

\* __kgem_bo_clear_busy of an idle bo.
LEMMA ClearIdleSeen ==
  ASSUME NEW k, Tracked(k), NEW g, Agree(k, g), NEW b \in Bo, ~Busy(g, b)
  PROVE  Seen(__kgem_bo_clear_busy(k.bo[b]), b, g, k.next)
<1> DEFINE o == k.bo[b]
<1>1. /\ k.next \in Nat \ {0} /\ Flying(g, k.next) /\ o \in BoState
      /\ o.list # "freed" => Watches(o, b, g, k.next)
  BY AgreeBo
<1>2. b \notin g.others BY <1>1, IdleUnused
<1>3. Hushed(g, b) BY <1>1, IdleHushed
<1>4. Watches(__kgem_bo_clear_busy(o), b, g, k.next) BY <1>1, <1>2, <1>3, ClearedWatches
<1> QED BY <1>4 DEF Seen

\* A bo that is idle: the request it was last used in is complete, and so are
\* the older ones of that ring.
LEMMA BoRetireAgrees ==
  ASSUME NEW k, Tracked(k), NEW g \in Gpu, Agree(k, g), NEW b \in Bo, ~Busy(g, b),
         ~k.bo[b].exec
  PROVE  /\ Agree(kgem_bo_retire(k, g, b), g)
         /\ kgem_bo_retire(k, g, b).wedged <=> k.wedged
<1> DEFINE q == k.bo[b].rq
           R == {r \in Outstanding(k) : RingOf(k, r) = RingOf(k, q) /\ r <= q}
           k1 == kgem_bo_retire(k, g, b)
<1>1. k \in Kgem BY DEF Tracked, Sound
<1>2. CASE q = NoRq BY <1>2 DEF kgem_bo_retire
<1>3. CASE q = Foreign
  <2> DEFINE p == __kgem_bo_clear_busy(k.bo[b])
             u == Update(k, [k.bo EXCEPT ![b] = p], k.flushing)
  <2>1. k1 = u
    BY <1>3 DEF kgem_bo_retire, __kgem_retire_requests_upto, NoRq, Foreign
  <2>2. Seen(p, b, g, k.next) BY ClearIdleSeen
  <2> HIDE DEF p
  <2>3. Agree(u, g) /\ (u.wedged <=> k.wedged) BY ONLY <1>1, <2>2, Agree(k, g), b \in Bo, OneBoAgrees
  <2> QED BY <2>1, <2>3
<1>4. CASE q \notin {NoRq, Foreign}
  <2>1. k1 = __kgem_retire_rq(k, g, R)
    BY <1>4 DEF kgem_bo_retire, __kgem_retire_requests_upto
  <2>2. q \in Outstanding(k)
    <3>1. Fine(k.bo[b], b, Outstanding(k), k.next, k.flushing) BY TrackedBo
    <3> QED BY <1>4, <3>1 DEF Fine, Booked
  <2>3. q \notin g.inflight
    <3>1. Watches(k.bo[b], b, g, k.next) BY <1>4, AgreeBo
    <3> QED BY <3>1 DEF Watches, Busy
  <2>4. ASSUME NEW r \in R PROVE r \notin g.inflight
    <3>1. PICK n \in Ring : q \in k.requests[n] BY <2>2 DEF Outstanding
    <3>2. n \in RingOf(k, r) BY <3>1 DEF RingOf
    <3>3. r \in k.requests[n] BY <3>2 DEF RingOf
    <3> QED BY <2>3, <3>1, <3>3, OlderComplete
  <2>5. R \subseteq Outstanding(k) OBVIOUS
  <2> HIDE DEF R, k1
  <2>6. R \cap g.inflight = {} BY <2>4
  <2>7. Agree(k1, g) /\ (k1.wedged <=> k.wedged) BY <2>1, <2>5, <2>6, RetireRqAgrees
  <2> QED BY <2>7 DEF k1
<1> QED BY <1>2, <1>3, <1>4

\* A query may retire the request of a bo.
LEMMA BoIsBusyAgrees ==
  ASSUME NEW k, Tracked(k), NEW g \in Gpu, Agree(k, g), NEW b \in Bo
  PROVE  /\ Agree(__kgem_bo_is_busy(k, g, b), g)
         /\ __kgem_bo_is_busy(k, g, b).wedged <=> k.wedged
  BY BoRetireAgrees DEF __kgem_bo_is_busy

-----------------------------------------------------------------------------
(* The caches.                                                               *)

\* Freeing bo.
LEMMA FreeAllAgrees ==
  ASSUME NEW k \in Kgem, NEW g, Agree(k, g), NEW S
  PROVE  Agree(FreeAll(k, S), g) /\ (FreeAll(k, S).wedged <=> k.wedged)
<1> DEFINE k1 == FreeAll(k, S)
<1>1. /\ \A b \in Bo : k1.bo[b] = IF b \in S THEN Freed ELSE k.bo[b]
      /\ k1.requests = k.requests /\ k1.next = k.next /\ k1.wedged = k.wedged
  BY FreeAllFields
<1>2. \A b \in Bo : Seen(k.bo[b], b, g, k.next) BY DEF Agree, AllSeen
<1>3. \A b \in Bo : Seen(k1.bo[b], b, g, k.next) BY <1>1, <1>2, FreedSeen
<1> HIDE DEF k1
<1>4. Agree(k1, g) BY <1>1, <1>3, SameRequestsAgree
<1> QED BY <1>1, <1>4 DEF k1

\* Framebuffers that go where other bo go.
LEMMA CleanScanoutAgrees ==
  ASSUME NEW k, Tracked(k), NEW g, Agree(k, g), NEW V, Scanouts(k, V), NEW cached \in BOOLEAN
  PROVE  /\ Agree(CleanScanout(k, g, V, cached), g)
         /\ CleanScanout(k, g, V, cached).wedged <=> k.wedged
<1> DEFINE k1 == CleanScanout(k, g, V, cached)
<1>1. ScanoutsCleaned(k, g, V, cached, k1) BY CleanScanoutFields DEF Tracked, Scanouts
<1>2. /\ \A b \in Bo : k1.bo[b] = IF b \in V THEN ScanoutCleaned(k, g, b, cached) ELSE k.bo[b]
      /\ k1.requests = k.requests /\ k1.next = k.next /\ k1.wedged = k.wedged
  BY <1>1 DEF ScanoutsCleaned
<1> HIDE DEF k1
<1>3. ASSUME NEW b \in Bo PROVE Seen(k1.bo[b], b, g, k.next)
  <2>1. /\ k.next \in Nat \ {0} /\ Flying(g, k.next)
        /\ k.bo[b] \in BoState /\ Seen(k.bo[b], b, g, k.next)
        /\ k.bo[b].list # "freed" => Watches(k.bo[b], b, g, k.next)
    BY AgreeBo
  <2>2. CASE b \in V
    <3> DEFINE p == Cleaned(k.bo[b], cached)
    <3>1. Watches(k.bo[b], b, g, k.next) BY <2>1, <2>2 DEF Scanouts
    <3>2. /\ p.rq = k.bo[b].rq /\ p.domain = k.bo[b].domain
          /\ p.shared = k.bo[b].shared /\ p.needs_flush = k.bo[b].needs_flush
      BY <2>1 DEF Cleaned, BoState
    <3>3. p \in BoState BY <2>1, Values, FlagsAssumption DEF Cleaned, BoState
    <3> HIDE DEF p
    <3>4. Watches(p, b, g, k.next) BY <2>1, <3>1, <3>2, WatchesGrows
    <3>5. Seen(__kgem_bo_destroy(g, b, p, FALSE), b, g, k.next)
      BY <2>1, <3>3, <3>4, DestroySeen
    <3> QED BY <1>2, <2>2, <3>5 DEF ScanoutCleaned, p
  <2>3. CASE b \notin V BY <1>2, <2>1, <2>3
  <2> QED BY <2>2, <2>3
<1>4. Agree(k1, g) BY <1>2, <1>3, SameRequestsAgree
<1> QED BY <1>2, <1>4 DEF k1

\* kgem_cleanup, once the device is wedged or every request is complete.
LEMMA CleanupAgrees ==
  ASSUME NEW k, Tracked(k), NEW g, Flying(g, k.next), AllSeen(k, g),
         k.wedged \/ g.inflight = {}
  PROVE  /\ Agree(kgem_cleanup(k), g)
         /\ kgem_cleanup(k).wedged <=> k.wedged
<1> DEFINE O == Outstanding(k)
           S == Buffers(k, O)
           bos == [b \in Bo |->
                IF b \in S THEN Dropped(k.bo[b])
                ELSE IF k.bo[b].list = "inactive" /\ b \notin Large THEN Freed ELSE k.bo[b]]
           k0 == Update(k, bos, k.flushing)
           k1 == [k0 EXCEPT !.requests = [n \in Ring |-> {}]]
<1>1. k \in Kgem /\ k.next \in Nat \ {0} BY DEF Tracked, Sound, Numbered
<1>2. kgem_cleanup(k) = k1 BY DEF kgem_cleanup, Dropped
<1>3. /\ k1.bo = bos /\ k1.requests = [n \in Ring |-> {}]
      /\ k1.next = k.next /\ k1.wedged = k.wedged
  BY <1>1 DEF Kgem, Update
<1>4. \A b \in Bo : bos[b] = IF b \in S THEN Dropped(k.bo[b])
                ELSE IF k.bo[b].list = "inactive" /\ b \notin Large THEN Freed ELSE k.bo[b]
  OBVIOUS
<1> HIDE DEF k1, bos
<1>5. ASSUME NEW b \in Bo PROVE Seen(bos[b], b, g, k.next)
  <2>0. Seen(k.bo[b], b, g, k.next) /\ k.bo[b] \in BoState BY TrackedBo DEF AllSeen
  <2>1. CASE b \in S
    <3>1. k.bo[b].rq \in O BY <2>1 DEF Buffers
    <3>2. k.bo[b].list # "freed"
      BY <3>1, TrackedBo DEF Fine, Listed, Numbered, NoRq
    <3>3. Hushed(g, b)
      <4>1. CASE k.wedged BY <4>1 DEF Tracked, Hushed, Watched, Ordered, NeverFails
      <4>2. CASE g.inflight = {} BY <4>2 DEF Hushed, Unwritten, Unused
      <4> QED BY <4>1, <4>2
    <3>4. Seen(Dropped(k.bo[b]), b, g, k.next) BY <1>1, <2>0, <3>2, <3>3, DroppedSeen DEF Seen
    <3> QED BY <1>4, <2>1, <3>4
  <2>2. CASE b \notin S BY <1>4, <2>0, <2>2, FreedSeen
  <2> QED BY <2>1, <2>2
<1>6. Outstanding(k1) = {} BY <1>3 DEF Outstanding
<1>7. InOrder(k1, g)
  <2>1. \A n \in Ring : k1.requests[n] = {} BY <1>3
  <2> QED BY <1>3, <1>6, <2>1 DEF InOrder
<1>8. Agree(k1, g) BY <1>3, <1>5, <1>7 DEF Agree, AllSeen
<1> QED BY <1>2, <1>3, <1>8

\* kgem_expire_cache.
LEMMA ExpireCacheAgrees ==
  ASSUME NEW k, Tracked(k), NEW g \in Gpu, Agree(k, g),
         NEW V, Scanouts(k, V), NEW cached \in BOOLEAN,
         NEW X, \A b \in Bo \cap X : k.bo[b].list = "snoop",
         NEW F, Alone(k, F), \A b \in Bo \cap F : ~Busy(g, b), NEW E
  PROVE  /\ Agree(kgem_expire_cache(k, g, V, cached, X, F, E), g)
         /\ kgem_expire_cache(k, g, V, cached, X, F, E).wedged <=> k.wedged
<1> DEFINE k1 == FreeAll(k, InCache(k, "inactive") \cap Large)
           c == CleanScanout(k1, g, V, cached)
           x == FreeAll(c, X)
           k2 == kgem_retire(x, g, F)
           k3 == IF k.wedged THEN kgem_cleanup(k2) ELSE k2
           k4 == FreeAll(k3, E \cap InCache(k3, "inactive"))
           e == InCache(k4, "inactive") \ Large # {}
           k5 == [k4 EXCEPT !.need_expire = e]
<1>0. \A q : Tracked(q) => q \in Kgem BY DEF Tracked, Sound
<1>1. /\ Tracked(k1) /\ \A b \in Bo : Steady(k.bo[b], k1.bo[b])
      /\ \A b \in Bo \cap X : k1.bo[b] = k.bo[b]
  <2> DEFINE S == InCache(k, "inactive") \cap Large
  <2>1. \A b \in Bo : b \in S => k.bo[b].list = "inactive" BY DEF InCache
  <2> HIDE DEF S
  <2>2. /\ Tracked(FreeAll(k, S)) /\ \A b \in Bo : Steady(k.bo[b], FreeAll(k, S).bo[b])
        /\ \A b \in Bo : FreeAll(k, S).bo[b] = IF b \in S THEN Freed ELSE k.bo[b]
    BY <2>1, FreeCachedTracked
  <2>3. \A b \in Bo \cap X : b \notin S BY <2>1
  <2> QED BY <2>2, <2>3 DEF S
<1>2. Alone(k1, F) /\ Scanouts(k1, V) BY <1>1, SteadyArguments
<1>3. Agree(k1, g) /\ (k1.wedged <=> k.wedged) BY <1>0, FreeAllAgrees
<1> HIDE DEF k1
<1>4. Tracked(c) BY <1>1, <1>2, CleanScanoutTracked
<1>5. \A b \in Bo \ V : c.bo[b] = k1.bo[b] BY <1>1, <1>2, CleanScanoutTracked
<1>6. \A b \in Bo : k1.bo[b].rq \in {NoRq, Foreign} => c.bo[b].rq \in {NoRq, Foreign}
  BY <1>1, <1>2, CleanScanoutTracked
<1>7. Agree(c, g) /\ (c.wedged <=> k1.wedged) BY <1>1, <1>2, <1>3, CleanScanoutAgrees
<1>8. Alone(c, F) BY <1>2, <1>6 DEF Alone
<1>9. \A b \in Bo \cap X : c.bo[b].list = "snoop" BY <1>1, <1>2, <1>5 DEF Scanouts
<1> HIDE DEF c
<1>10. Tracked(x) /\ \A b \in Bo : Steady(c.bo[b], x.bo[b]) BY <1>4, <1>9, FreeCachedTracked
<1>11. Agree(x, g) /\ (x.wedged <=> c.wedged) BY <1>0, <1>4, <1>7, FreeAllAgrees
<1>12. Alone(x, F) BY <1>8, <1>10, SteadyArguments
<1> HIDE DEF x
<1>13. Tracked(k2) BY <1>10, <1>12, RetireTracked
<1>14. Agree(k2, g) /\ (k2.wedged <=> x.wedged) BY <1>10, <1>11, <1>12, RetireAgrees
<1> HIDE DEF k2
<1>15. k2.wedged <=> k.wedged BY <1>3, <1>7, <1>11, <1>14
<1>16. Tracked(k3) /\ Agree(k3, g) /\ (k3.wedged <=> k.wedged)
  <2>1. CASE k.wedged
    <3>1. Flying(g, k2.next) /\ AllSeen(k2, g) BY <1>14 DEF Agree
    <3>2. Agree(kgem_cleanup(k2), g) /\ (kgem_cleanup(k2).wedged <=> k2.wedged)
      BY <1>13, <1>15, <2>1, <3>1, CleanupAgrees
    <3>3. Tracked(kgem_cleanup(k2)) BY <1>13, <1>15, <2>1, CleanupTracked
    <3> QED BY <1>15, <2>1, <3>2, <3>3
  <2>2. CASE ~k.wedged BY <1>13, <1>14, <1>15, <2>2
  <2> QED BY <2>1, <2>2
<1> HIDE DEF k3
<1>17. Agree(k4, g) /\ (k4.wedged <=> k3.wedged) BY <1>0, <1>16, FreeAllAgrees
<1>18. k4 \in Kgem
  <2> DEFINE S == E \cap InCache(k3, "inactive")
  <2>1. \A b \in Bo \cap S : k3.bo[b].list = "inactive" BY DEF InCache
  <2> HIDE DEF S
  <2>2. Tracked(FreeAll(k3, S)) BY <1>16, <2>1, FreeCachedTracked
  <2> QED BY <1>0, <2>2 DEF S
<1> HIDE DEF k4, e
<1>19. /\ k5.bo = k4.bo /\ k5.requests = k4.requests
       /\ k5.next = k4.next /\ k5.wedged = k4.wedged
  BY <1>18 DEF Kgem
<1> HIDE DEF k5
<1>20. Agree(k5, g) /\ (k5.wedged <=> k.wedged) BY <1>16, <1>17, <1>19, SameAgrees
<1>21. kgem_expire_cache(k, g, V, cached, X, F, E) = k5
  BY DEF kgem_expire_cache, k1, c, x, k2, k3, k4, e, k5
<1> QED BY <1>20, <1>21

\* kgem_cleanup_cache, once every request is complete.
LEMMA CleanupCacheAgrees ==
  ASSUME NEW k, Tracked(k), NEW g \in Gpu, Agree(k, g), g.inflight = {},
         NEW V, Scanouts(k, V), NEW cached \in BOOLEAN,
         NEW F, Alone(k, F), \A b \in Bo \cap F : ~Busy(g, b)
  PROVE  /\ Agree(kgem_cleanup_cache(k, g, F, V, cached), g)
         /\ kgem_cleanup_cache(k, g, F, V, cached).wedged <=> k.wedged
<1> DEFINE q == __kgem_retire_rq(k, g, Outstanding(k))
           t == kgem_retire(q, g, F)
           k1 == kgem_cleanup(t)
           f == FreeAll(k1, InCache(k1, "inactive"))
           k2 == CleanScanout(f, g, V, cached)
           k3 == FreeAll(k2, InCache(k2, "snoop"))
           k4 == [k3 EXCEPT !.need_expire = FALSE]
<1>0. \A s : Tracked(s) => s \in Kgem BY DEF Tracked, Sound
<1>1. Tracked(q) /\ \A b \in Bo : Steady(k.bo[b], q.bo[b]) BY RetireRqTracked, RetireRqSteady
<1>2. Outstanding(q) = {}
  <2>1. Retired(k, g, Outstanding(k), q) BY RetireRqFields DEF Tracked
  <2> QED BY <2>1 DEF Retired
<1>3. Alone(q, F) /\ Scanouts(q, V) BY <1>1, SteadyArguments
<1>4. Agree(q, g) /\ (q.wedged <=> k.wedged) BY RetireRqAgrees
<1> HIDE DEF q
<1>5. /\ Tracked(t) /\ \A b \in Bo : Steady(q.bo[b], t.bo[b])
      /\ Outstanding(t) = {}
  BY <1>1, <1>2, <1>3, RetireTracked, RetireSteady, RetireKeeps DEF Tracked
<1>6. Agree(t, g) /\ (t.wedged <=> q.wedged) BY <1>1, <1>3, <1>4, RetireAgrees
<1>7. Scanouts(t, V) BY <1>3, <1>5, SteadyArguments
<1> HIDE DEF t
<1>8. Tracked(k1) /\ \A b \in Bo : Steady(t.bo[b], k1.bo[b]) BY <1>5, CleanupTracked
<1>9. Agree(k1, g) /\ (k1.wedged <=> t.wedged) BY <1>5, <1>6, CleanupAgrees DEF Agree
<1>10. Scanouts(k1, V) BY <1>7, <1>8, SteadyArguments
<1> HIDE DEF k1
<1>11. Tracked(f) /\ \A b \in Bo : Steady(k1.bo[b], f.bo[b])
  <2> DEFINE S == InCache(k1, "inactive")
  <2>1. \A b \in Bo \cap S : k1.bo[b].list = "inactive" BY DEF InCache
  <2> HIDE DEF S
  <2>2. Tracked(FreeAll(k1, S)) /\ \A b \in Bo : Steady(k1.bo[b], FreeAll(k1, S).bo[b])
    BY <1>8, <2>1, FreeCachedTracked
  <2> QED BY <2>2 DEF S
<1>12. Agree(f, g) /\ (f.wedged <=> k1.wedged) BY <1>0, <1>8, <1>9, FreeAllAgrees
<1>13. Scanouts(f, V) BY <1>10, <1>11, SteadyArguments
<1> HIDE DEF f
<1>14. Tracked(k2) BY <1>11, <1>13, CleanScanoutTracked
<1>15. Agree(k2, g) /\ (k2.wedged <=> f.wedged) BY <1>11, <1>12, <1>13, CleanScanoutAgrees
<1> HIDE DEF k2
<1>16. Agree(k3, g) /\ (k3.wedged <=> k2.wedged) BY <1>0, <1>14, <1>15, FreeAllAgrees
<1>17. k3 \in Kgem
  <2> DEFINE S == InCache(k2, "snoop")
  <2>1. \A b \in Bo \cap S : k2.bo[b].list = "snoop" BY DEF InCache
  <2> HIDE DEF S
  <2>2. Tracked(FreeAll(k2, S)) BY <1>14, <2>1, FreeCachedTracked
  <2> QED BY <1>0, <2>2 DEF S
<1> HIDE DEF k3
<1>18. /\ k4.bo = k3.bo /\ k4.requests = k3.requests
       /\ k4.next = k3.next /\ k4.wedged = k3.wedged
  BY <1>17 DEF Kgem
<1> HIDE DEF k4
<1>19. Agree(k4, g) BY <1>16, <1>18, SameAgrees
<1>20. kgem_cleanup_cache(k, g, F, V, cached) \in {k1, k4}
  BY DEF kgem_cleanup_cache, q, t, k1, f, k2, k3, k4
<1>21. k1.wedged <=> k.wedged BY <1>4, <1>6, <1>9
<1>22. k4.wedged <=> k.wedged BY <1>12, <1>15, <1>16, <1>18, <1>21
<1> QED BY <1>9, <1>19, <1>20, <1>21, <1>22

\* The bo that a scan of the flushing list retires are idle.
LEMMA ScansIdle ==
  ASSUME NEW k, NEW g, NEW F \in FlushScans(k, g) PROVE \A b \in Bo \cap F : ~Busy(g, b)
<1>1. F \subseteq {b \in k.flushing : ~Busy(g, b)} BY DEF FlushScans
<1> QED BY <1>1

\* The outcomes of kgem_expire_cache.
LEMMA ExpiredAgrees ==
  ASSUME NEW k, Tracked(k), NEW g \in Gpu, Agree(k, g), NEW p \in Expired(k, g)
  PROVE  Agree(p[1], g) /\ (p[1].wedged <=> k.wedged)
<1>1. PICK V, cached, X, F, E :
        /\ V \in ScanoutScans(k, g) \cup {{}} /\ cached \in Cacheable(k)
        /\ X \in SUBSET InCache(k, "snoop") /\ F \in FlushScans(k, g)
        /\ p = <<kgem_expire_cache(k, g, V, cached, X, F, E), E # {}>>
  BY DEF Expired
<1>2. \A b \in Bo \cap X : k.bo[b].list = "snoop" BY <1>1 DEF InCache
<1>3. cached \in BOOLEAN BY <1>1, CacheableType
<1>4. Alone(k, F) /\ Scanouts(k, V) BY <1>1, ScansTracked
<1>5. \A b \in Bo \cap F : ~Busy(g, b) BY <1>1, ScansIdle
<1> DEFINE k1 == kgem_expire_cache(k, g, V, cached, X, F, E)
<1>6. Agree(k1, g) /\ (k1.wedged <=> k.wedged) BY <1>2, <1>3, <1>4, <1>5, ExpireCacheAgrees
<1>7. p[1] = k1 BY <1>1
<1> QED BY <1>6, <1>7

\* The outcomes of kgem_cleanup_cache.
LEMMA CleanedUpAgrees ==
  ASSUME NEW k, Tracked(k), NEW g \in Gpu, Agree(k, g), g.inflight = {},
         NEW k1 \in CleanedUp(k, g)
  PROVE  Agree(k1, g) /\ (k1.wedged <=> k.wedged)
<1>1. PICK F, V, cached :
        /\ F \in FlushScans(k, g) /\ V \in ScanoutScans(k, g) /\ cached \in Cacheable(k)
        /\ k1 = kgem_cleanup_cache(k, g, F, V, cached)
  BY DEF CleanedUp
<1>2. cached \in BOOLEAN BY <1>1, CacheableType
<1>3. Alone(k, F) /\ Scanouts(k, V) BY <1>1, ScansTracked
<1>4. \A b \in Bo \cap F : ~Busy(g, b) BY <1>1, ScansIdle
<1> QED BY <1>1, <1>2, <1>3, <1>4, CleanupCacheAgrees

\* The searches of the caches may retire first.
LEMMA SearchesAgree ==
  ASSUME NEW k, Tracked(k), NEW g \in Gpu, Agree(k, g), NEW s \in Searches(k, g)
  PROVE  Agree(s, g) /\ (s.wedged <=> k.wedged)
<1>1. CASE s = k BY <1>1
<1>2. CASE s # k
  <2>1. PICK F \in FlushScans(k, g) : s = kgem_retire(k, g, F) BY <1>2 DEF Searches
  <2>2. Alone(k, F) /\ \A b \in Bo \cap F : ~Busy(g, b) BY ScansTracked, ScansIdle
  <2> QED BY <2>1, <2>2, RetireAgrees
<1> QED BY <1>1, <1>2

-----------------------------------------------------------------------------
(* The batch.                                                                *)

\* kgem_reset.  It takes a bo that was not written to be idle, which it need not
\* be: other requests may read it.
LEMMA ResetAgrees ==
  ASSUME ~Ordered, NEW k, NEW S, TrackedBut(k, S), NEW g, Agree(k, g), NEW held
  PROVE  /\ Agree(kgem_reset(k, g, held), g)
         /\ kgem_reset(k, g, held).wedged <=> k.wedged
<1> DEFINE k1 == kgem_reset(k, g, held)
<1>1. WasReset(k, g, held, k1) BY ResetFields DEF TrackedBut
<1> HIDE DEF k1
<1>2. k1.requests = k.requests /\ k1.next = k.next /\ k1.wedged = k.wedged
  BY <1>1 DEF WasReset
<1>3. ASSUME NEW b \in Bo PROVE Seen(k1.bo[b], b, g, k.next)
  <2>1. Fine(k.bo[b], b, Outstanding(k), k.next, k.flushing) /\ k.next \in Nat \ {0}
    BY DEF TrackedBut, Numbered
  <2>2. /\ k.bo[b] \in BoState /\ Flying(g, k.next) /\ Seen(k.bo[b], b, g, k.next)
    BY <2>1 DEF Fine, Agree, AllSeen
  <2>3. CASE k.bo[b].rq # k.next
    <3>1. k1.bo[b] = k.bo[b] BY <1>1, <2>3 DEF WasReset
    <3> QED BY <2>2, <3>1
  <2>4. CASE k.bo[b].rq = k.next
    <3>1. k.bo[b].list # "freed" BY <2>1, <2>4 DEF Fine, Listed, NoRq
    <3>2. Watches(k.bo[b], b, g, k.next) BY <2>2, <3>1 DEF Seen
    <3>3. b \in ResetFlushes(k, g) <=> k.bo[b].needs_flush /\ Busy(g, b)
      BY <2>4 DEF ResetFlushes, Buffers, Flushes
    <3>4. CASE b \in ResetFlushes(k, g)
      <4>1. k1.bo[b] = ResetBusy(k.bo[b]) BY <1>1, <2>4, <3>4 DEF WasReset
      <4> QED BY <2>1, <2>2, <2>4, <3>2, <4>1, ResetSeen
    <3>5. CASE b \notin ResetFlushes(k, g)
      <4>1. k1.bo[b] \in {ResetIdle(k.bo[b]), Release(b, ResetIdle(k.bo[b]))}
        BY <1>1, <2>4, <3>5 DEF WasReset
      <4> QED BY <2>1, <2>2, <3>2, <3>3, <3>5, <4>1, ResetSeen
    <3> QED BY <3>4, <3>5
  <2> QED BY <2>3, <2>4
<1>4. Agree(k1, g) BY <1>2, <1>3, SameRequestsAgree
<1> QED BY <1>2, <1>4 DEF k1

\* kgem_bo_undo, which resets the batch only where batches are discarded.
LEMMA UndoAgrees ==
  ASSUME NEW k, NEW S, TrackedBut(k, S), NEW g, Agree(k, g), ExecList(k) = S => Undo
  PROVE  Agree(kgem_bo_undo(k, g, S), g) /\ (kgem_bo_undo(k, g, S).wedged <=> k.wedged)
<1>1. CASE ExecList(k) = S
  <2>1. ~Ordered BY <1>1 DEF Ordered
  <2>2. kgem_bo_undo(k, g, S) = kgem_reset(k, g, S) BY <1>1 DEF kgem_bo_undo
  <2> QED BY <2>1, <2>2, ResetAgrees
<1>2. CASE ExecList(k) # S BY <1>2 DEF kgem_bo_undo
<1> QED BY <1>1, <1>2

\* kgem_bo_destroy of the last reference.
LEMMA UnreferencedAgrees ==
  ASSUME NEW k, NEW b \in Bo, TrackedBut(k, {b}), k.bo[b].refcnt = 0, gpu \in Gpu, Agree(k, gpu),
         Recyclable(k.bo[b]) /\ ExecList(k) = {b} => Undo, NEW keep \in BOOLEAN
  PROVE  Agree(Unreferenced(k, b, keep), gpu)
<1> DEFINE k1 == IF Recyclable(k.bo[b]) THEN kgem_bo_undo(k, gpu, {b}) ELSE k
           o1 == __kgem_bo_destroy(gpu, b, k1.bo[b], keep)
           bos == [k1.bo EXCEPT ![b] = o1]
           e == Cached({b}, bos)
           k2 == Update(k1, bos, k1.flushing)
           k3 == [k2 EXCEPT !.need_expire = @ \/ e]
<1>1. Unreferenced(k, b, keep) = k3 BY DEF Unreferenced
<1>2. TrackedBut(k1, {b}) BY UndoTracked
<1>3. Agree(k1, gpu)
  <2>1. CASE Recyclable(k.bo[b]) BY <2>1, UndoAgrees
  <2>2. CASE ~Recyclable(k.bo[b]) BY <2>2
  <2> QED BY <2>1, <2>2
<1> HIDE DEF k1
<1>4. /\ k1.next \in Nat \ {0} /\ k1.bo[b].list = "none" /\ k1.bo[b] \in BoState /\ k1 \in Kgem
  BY <1>2 DEF TrackedBut, Sound, Numbered, Fine
<1>5. Flying(gpu, k1.next) /\ Watches(k1.bo[b], b, gpu, k1.next)
  BY <1>3, <1>4 DEF Agree, AllSeen, Seen
<1>6. Seen(o1, b, gpu, k1.next) BY <1>4, <1>5, DestroySeen
<1> HIDE DEF o1, e
<1>7. Agree(k2, gpu) BY <1>3, <1>4, <1>6, OneBoAgrees
<1>8. /\ k3.bo = k2.bo /\ k3.requests = k2.requests
      /\ k3.next = k2.next /\ k3.wedged = k2.wedged
  BY <1>4 DEF Kgem, Update
<1> HIDE DEF k2, k3
<1>9. Agree(k3, gpu) BY <1>7, <1>8, SameAgrees
<1> QED BY <1>1, <1>9

\* A bo that nothing uses, as __kgem_bo_init leaves it.
LEMMA NewBoWatches ==
  ASSUME NEW g, NEW nx, nx \in Nat \ {0}, Flying(g, nx), NEW b, ~Busy(g, b)
  PROVE  Watches(NewBo, b, g, nx)
<1>1. NewBo.rq = NoRq BY DEF NewBo, Freed
<1>2. NewBo.rq \notin g.inflight BY <1>1, NotFlying
<1>3. Unused(g, b) /\ b \notin g.others /\ Hushed(g, b) BY IdleUnused, IdleHushed
<1> QED BY <1>2, <1>3, WatchesHushed

\* The batch bo: an inactive one, or a new one.
LEMMA CreateBatchAgrees ==
  ASSUME NEW k, Tracked(k), NEW g, Agree(k, g), NEW c \in Bo,
         k.bo[c].list = "freed" => ~Busy(g, c)
  PROVE  Agree(kgem_create_batch(k, c), g) /\ (kgem_create_batch(k, c).wedged <=> k.wedged)
<1> DEFINE o == IF k.bo[c].list = "freed" THEN NewBo ELSE k.bo[c]
           p == [o EXCEPT !.refcnt = 1, !.list = "none", !.batch = TRUE,
                          !.exec = TRUE, !.rq = k.next]
<1>1. k \in Kgem BY DEF Tracked, Sound
<1>2. /\ k.next \in Nat \ {0} /\ Flying(g, k.next) /\ k.bo[c] \in BoState
      /\ k.bo[c].list # "freed" => Watches(k.bo[c], c, g, k.next)
  BY AgreeBo
<1>3. kgem_create_batch(k, c) = [k EXCEPT !.bo[c] = p] BY DEF kgem_create_batch
<1>4. o \in BoState /\ Watches(o, c, g, k.next)
  BY <1>2, NewBoWatches, NewBoSound DEF SoundBo
<1> HIDE DEF o
<1>5. p.rq = k.next /\ p.shared = o.shared /\ p.domain = o.domain /\ p.needs_flush = o.needs_flush
  BY <1>4 DEF BoState
<1> HIDE DEF p
<1>6. Seen(p, c, g, k.next) BY <1>2, <1>4, <1>5, WatchesGrows DEF Seen
<1>7. Agree([k EXCEPT !.bo[c] = p], g) /\ ([k EXCEPT !.bo[c] = p].wedged <=> k.wedged)
  BY <1>1, <1>6, OneBoAgrees
<1> QED BY <1>3, <1>7

-----------------------------------------------------------------------------
(* The kernel.                                                               *)

\* DRM_IOCTL_I915_GEM_EXECBUFFER2 adds one request to those in flight.
WasExecuted(g, k, h) ==
  /\ h.inflight = g.inflight \cup {k.next} /\ h.others = g.others
  /\ h.ring[k.next] = k.ring /\ h.uses[k.next] = ExecList(k)
  /\ h.writes[k.next] = {b \in Bo : k.bo[b].write}
  /\ \A r \in g.inflight : r # k.next => /\ h.ring[r] = g.ring[r] /\ h.uses[r] = g.uses[r]
                                         /\ h.writes[r] = g.writes[r]

\* Its fields.
LEMMA ExecbufFields ==
  ASSUME NEW g \in Gpu, NEW k \in Kgem, k.next <= MaxReq
  PROVE  WasExecuted(g, k, Execbuf(g, k))
<1> DEFINE h == Execbuf(g, k)
           W == {b \in Bo : k.bo[b].write}
           E == ExecList(k)
<1>1. k.next \in Req BY BoundsAssumption DEF Kgem, Req
<1>2. g.inflight \subseteq Req BY DEF Gpu
<1> HIDE DEF W, E
<1>3. h = [g EXCEPT !.inflight = @ \cup {k.next}, !.ring[k.next] = k.ring,
                    !.uses[k.next] = E, !.writes[k.next] = W]
  BY DEF Execbuf, E, W
<1> HIDE DEF h
<1>4. h.inflight = g.inflight \cup {k.next} /\ h.others = g.others BY <1>3 DEF Gpu
<1>5. h.ring[k.next] = k.ring /\ \A r \in Req : r # k.next => h.ring[r] = g.ring[r]
  BY <1>1, <1>3 DEF Gpu
<1>6. h.uses[k.next] = E /\ \A r \in Req : r # k.next => h.uses[r] = g.uses[r]
  BY <1>1, <1>3 DEF Gpu
<1>7. h.writes[k.next] = W /\ \A r \in Req : r # k.next => h.writes[r] = g.writes[r]
  BY <1>1, <1>3 DEF Gpu
<1> QED BY <1>2, <1>4, <1>5, <1>6, <1>7 DEF WasExecuted, h, W, E

\* The bo of the batch belong to the newest request.
LEMMA CommitSeen ==
  ASSUME NEW g, NEW k, Tracked(k), Agree(k, g), NEW h, WasExecuted(g, k, h), NEW b \in Bo
  PROVE  /\ k.bo[b].rq = k.next => Seen(Committed(k.bo[b]), b, h, k.next + 1)
         /\ k.bo[b].rq # k.next => Seen(k.bo[b], b, h, k.next + 1)
<1> DEFINE o == k.bo[b]
           nx == k.next
           p == [o EXCEPT !.exec = FALSE, !.write = FALSE, !.domain = "gpu"]
<1>1. /\ nx \in Nat \ {0} /\ Flying(g, nx) /\ o \in BoState
      /\ Seen(o, b, g, nx)
      /\ o.rq # NoRq => Watches(o, b, g, nx)
  BY AgreeBo
<1>2. NoRq \notin g.inflight /\ Foreign \notin g.inflight /\ nx \notin g.inflight
  BY <1>1, NotFlying
<1>3. Booked(o, Outstanding(k), nx) BY TrackedBo DEF Fine
<1>4. /\ h.inflight = g.inflight \cup {nx} /\ h.others = g.others
      /\ (b \in h.uses[nx] <=> o.rq = nx) /\ (b \in h.writes[nx] <=> o.write)
      /\ \A r \in g.inflight : h.uses[r] = g.uses[r] /\ h.writes[r] = g.writes[r]
  BY <1>2, <1>3 DEF WasExecuted, ExecList, Booked
<1>5. \A r \in g.inflight : r \in Nat /\ r < nx BY <1>1 DEF Flying
<1>6. nx # NoRq BY <1>1 DEF NoRq
<1>7. p.rq = o.rq /\ p.shared = o.shared /\ p.domain = "gpu" /\ p.needs_flush = o.needs_flush
  BY <1>1 DEF BoState
<1>8. Committed(o) \in {Freed, p} BY DEF Committed
<1> HIDE DEF o, nx, p
<1>9. CASE o.rq = nx
  <2>1. Watches(o, b, g, nx) BY <1>1, <1>6, <1>9
  <2>2. \A r \in h.inflight : Latest(p, h, nx + 1, r)
    BY <1>1, <1>4, <1>5, <1>7, <1>9 DEF Latest
  <2>3. Watched => \A r \in h.inflight : b \in h.writes[r] => p.needs_flush
    BY <1>3, <1>4, <1>7, <2>1 DEF Watches, Booked
  <2>4. Watches(p, b, h, nx + 1)
    BY <1>4, <1>7, <1>9, <2>1, <2>2, <2>3 DEF Watches
  <2> QED BY <1>8, <1>9, <2>4, FreedSeen DEF Seen, o, nx
<1>10. CASE o.rq # nx
  <2>1. b \notin h.uses[nx] /\ b \notin h.writes[nx] BY <1>3, <1>4, <1>10 DEF Booked
  <2>2. Unused(g, b) => Unused(h, b) BY <1>4, <2>1 DEF Unused
  <2>3. \A r : Latest(o, g, nx, r) => Latest(o, h, nx + 1, r) BY <1>4, <1>10 DEF Latest
  <2>4. ASSUME Watches(o, b, g, nx) PROVE Watches(o, b, h, nx + 1)
    <3>1. b \in h.others => o.shared BY <1>4, <2>4 DEF Watches
    <3>2. o.rq \in h.inflight => b \in h.uses[o.rq] BY <1>4, <1>10, <2>4 DEF Watches
    <3>3. Calm /\ o.domain \in {"cpu", "gtt"} => Unused(h, b) BY <2>2, <2>4 DEF Watches
    <3>4. Watched => \A r \in h.inflight : b \in h.writes[r]
                       => o.needs_flush /\ Latest(o, h, nx + 1, r)
      BY <1>4, <2>1, <2>3, <2>4 DEF Watches
    <3>5. Ordered => \A r \in h.inflight : b \in h.uses[r] => Latest(o, h, nx + 1, r)
      BY <1>4, <2>1, <2>3, <2>4 DEF Watches
    <3> QED BY <3>1, <3>2, <3>3, <3>4, <3>5 DEF Watches
  <2> QED BY <1>1, <1>10, <2>4 DEF Seen, o, nx
<1> QED BY <1>9, <1>10 DEF o, nx

\* kgem_commit, after the kernel accepted the batch.
LEMMA CommitAgrees ==
  ASSUME NEW k, Tracked(k), NEW g \in Gpu, Agree(k, g), k.next <= MaxReq, ~k.wedged
  PROVE  Agree(kgem_commit(k), Execbuf(g, k))
<1> DEFINE k1 == kgem_commit(k)
           h == Execbuf(g, k)
           nx == k.next
<1>1. Sound(k) /\ k \in Kgem /\ Numbered(Outstanding(k), nx) BY DEF Tracked, Sound
<1>2. WasExecuted(g, k, h) BY <1>1, ExecbufFields
<1>3. WasCommitted(k, k1) BY <1>1, CommitFields
<1>4. Flying(g, nx) /\ InOrder(k, g) /\ nx \in Nat \ {0} BY <1>1 DEF Agree, Numbered
<1>5. nx \notin g.inflight BY <1>4, NotFlying
<1> HIDE DEF k1, h
<1>6. k1.next = nx + 1 /\ Outstanding(k1) = Outstanding(k) \cup {nx} /\ (k1.wedged <=> k.wedged)
  BY <1>3 DEF WasCommitted
<1>7. \A n \in Ring : k1.requests[n] = k.requests[n] \cup (IF n = k.ring THEN {nx} ELSE {})
  BY <1>3 DEF WasCommitted
<1>8. /\ h.inflight = g.inflight \cup {nx} /\ h.ring[nx] = k.ring
      /\ \A r \in g.inflight : h.ring[r] = g.ring[r]
  BY <1>2, <1>5 DEF WasExecuted
<1>9. \A n \in Ring : \A r \in k.requests[n] : r \in Nat /\ r < nx /\ r # nx
  BY <1>1 DEF Numbered, Outstanding
<1>10. Flying(h, nx + 1)
  <2>1. h.writes[nx] \subseteq h.uses[nx]
    <3>1. ASSUME NEW b \in Bo, k.bo[b].write PROVE k.bo[b].exec
      BY <3>1, TrackedBo DEF Fine, Booked
    <3> QED BY <1>2, <3>1 DEF WasExecuted, ExecList
  <2>2. \A r \in g.inflight : h.writes[r] \subseteq h.uses[r]
    BY <1>2, <1>4, <1>5 DEF WasExecuted, Flying
  <2>3. \A r \in g.inflight : r \in Nat \ {0} /\ r < nx + 1 BY <1>4 DEF Flying
  <2> QED BY <1>4, <1>8, <2>1, <2>2, <2>3 DEF Flying
<1>11. InOrder(k1, h)
  <2>1. ASSUME NEW n \in Ring, NEW r \in k1.requests[n], r \in h.inflight PROVE h.ring[r] = n
    BY <1>4, <1>5, <1>7, <1>8, <1>9, <2>1 DEF InOrder
  <2>2. ASSUME NEW n \in Ring, NEW r \in k1.requests[n], NEW s \in k1.requests[n],
               r < s, r \in h.inflight
        PROVE  s \in h.inflight
    <3>1. CASE s = nx BY <1>8, <3>1
    <3>2. CASE s # nx
      <4>1. s \in k.requests[n] BY <1>7, <3>2
      <4>2. r # nx BY <1>4, <1>9, <2>2, <4>1
      <4>3. r \in k.requests[n] /\ r \in g.inflight BY <1>7, <1>8, <2>2, <4>2
      <4> QED BY <1>4, <1>8, <2>2, <4>1, <4>3 DEF InOrder
    <3> QED BY <3>1, <3>2
  <2>3. h.inflight \subseteq Outstanding(k1) BY <1>4, <1>6, <1>8 DEF InOrder
  <2> QED BY <1>6, <2>1, <2>2, <2>3 DEF InOrder
<1>12. ASSUME NEW b \in Bo PROVE Seen(k1.bo[b], b, h, nx + 1)
  <2>1. k1.bo[b] = IF k.bo[b].rq = nx THEN Committed(k.bo[b]) ELSE k.bo[b]
    BY <1>3 DEF WasCommitted
  <2> QED BY <1>2, <2>1, CommitSeen
<1> QED BY <1>6, <1>10, <1>11, <1>12 DEF Agree, AllSeen, k1, h

\* The fields that Closed assigns.
LEMMA ClosedFields ==
  ASSUME NEW g \in Gpu, NEW k
  PROVE  /\ Closed(g, k).inflight = g.inflight /\ Closed(g, k).ring = g.ring
         /\ Closed(g, k).others = g.others \cap Alive(k)
         /\ \A r \in Req : /\ Closed(g, k).uses[r] = g.uses[r] \cap Alive(k)
                           /\ Closed(g, k).writes[r] = g.writes[r] \cap Alive(k)
  BY DEF Closed, Gpu

\* Nothing uses a handle that is closed.
LEMMA ClosedIdle ==
  ASSUME NEW g \in Gpu, NEW k, NEW b \in Bo, k.bo[b].list = "freed"
  PROVE  ~Busy(Closed(g, k), b)
<1>1. b \notin Alive(k) BY DEF Alive
<1>2. \A r \in g.inflight : r \in Req BY DEF Gpu
<1> QED BY <1>1, <1>2, ClosedFields DEF Busy

\* gem_close concerns only bo that are not in use.
LEMMA ClosedAgrees ==
  ASSUME NEW k, Tracked(k), NEW g \in Gpu, Agree(k, g) PROVE Agree(k, Closed(g, k))
<1> DEFINE h == Closed(g, k)
<1>1. /\ h.inflight = g.inflight /\ h.ring = g.ring /\ h.others = g.others \cap Alive(k)
      /\ \A r \in Req : /\ h.uses[r] = g.uses[r] \cap Alive(k)
                        /\ h.writes[r] = g.writes[r] \cap Alive(k)
  BY ClosedFields
<1> HIDE DEF h
<1>2. \A r \in g.inflight : r \in Req BY DEF Gpu
<1>3. Flying(h, k.next) BY <1>1, <1>2 DEF Agree, Flying
<1>4. InOrder(k, h) BY <1>1 DEF Agree, InOrder
<1>5. ASSUME NEW b \in Bo, k.bo[b].list # "freed" PROVE Watches(k.bo[b], b, h, k.next)
  <2> DEFINE o == k.bo[b]
  <2>1. Watches(o, b, g, k.next) BY <1>5 DEF Agree, AllSeen, Seen
  <2>2. b \in Alive(k) BY <1>5 DEF Alive
  <2>3. (b \in h.others <=> b \in g.others)
        /\ \A r \in g.inflight : (b \in h.uses[r] <=> b \in g.uses[r])
                                 /\ (b \in h.writes[r] <=> b \in g.writes[r])
    BY <1>1, <1>2, <2>2
  <2> HIDE DEF o
  <2>4. \A r : Latest(o, g, k.next, r) => Latest(o, h, k.next, r) BY <1>1 DEF Latest
  <2>5. Watches(o, b, h, k.next) BY <1>1, <2>1, <2>3, <2>4 DEF Watches, Unused
  <2> QED BY <2>5 DEF o
<1> QED BY <1>3, <1>4, <1>5 DEF Agree, AllSeen, Seen, h

\* The requests that h has, it has as g had them; other processes only finish.
Fewer(g, h) ==
  /\ h.inflight \subseteq g.inflight /\ h.others \subseteq g.others
  /\ \A r \in h.inflight : /\ h.ring[r] = g.ring[r] /\ h.uses[r] = g.uses[r]
                           /\ h.writes[r] = g.writes[r]
  /\ \A r \in g.inflight \ h.inflight, s \in h.inflight : s < r => ~After(g, r, s)

\* Requests complete: no earlier request of the same ring, and none that uses a
\* bo the request wrote, or wrote a bo it used, is left behind.
LEMMA FewerAgrees ==
  ASSUME NEW k, Tracked(k), NEW g, Agree(k, g), NEW h, Fewer(g, h) PROVE Agree(k, h)
<1>1. /\ h.inflight \subseteq g.inflight /\ h.others \subseteq g.others
      /\ \A r \in h.inflight : /\ h.ring[r] = g.ring[r] /\ h.uses[r] = g.uses[r]
                               /\ h.writes[r] = g.writes[r]
      /\ \A r \in g.inflight \ h.inflight, s \in h.inflight : s < r => ~After(g, r, s)
  BY DEF Fewer
<1>2. Flying(g, k.next) /\ InOrder(k, g) BY DEF Agree
<1>3. Flying(h, k.next) BY <1>1, <1>2 DEF Flying
<1>4. InOrder(k, h)
  <2>1. \A n \in Ring : \A r \in k.requests[n] : r \in h.inflight => h.ring[r] = n
    BY <1>1, <1>2 DEF InOrder
  <2>2. ASSUME NEW n \in Ring, NEW r \in k.requests[n], NEW s \in k.requests[n],
               r < s, r \in h.inflight
        PROVE  s \in h.inflight
    <3>1. s \in g.inflight BY <1>1, <1>2, <2>2 DEF InOrder
    <3>2. g.ring[r] = n /\ g.ring[s] = n BY <1>1, <1>2, <2>2, <3>1 DEF InOrder
    <3>3. After(g, s, r) BY <3>2 DEF After
    <3> QED BY <1>1, <2>2, <3>1, <3>3
  <2>3. k.wedged \/ h.inflight \subseteq Outstanding(k) BY <1>1, <1>2 DEF InOrder
  <2>4. k.wedged => Outstanding(k) = {} BY <1>2 DEF InOrder
  <2> QED BY <2>1, <2>2, <2>3, <2>4 DEF InOrder
<1>5. ASSUME NEW b \in Bo, k.bo[b].list # "freed" PROVE Watches(k.bo[b], b, h, k.next)
  <2> DEFINE o == k.bo[b]
  <2>1. Watches(o, b, g, k.next) BY <1>5 DEF Agree, AllSeen, Seen
  <2> HIDE DEF o
  <2>2. \A r \in g.inflight : r \in Nat BY <1>2 DEF Flying
  <2>3. ASSUME NEW r \in h.inflight, Latest(o, g, k.next, r),
               o.rq \in g.inflight /\ r < o.rq => After(g, o.rq, r)
        PROVE  Latest(o, h, k.next, r)
    <3>1. CASE o.rq \in {Foreign, k.next} BY <3>1 DEF Latest
    <3>2. CASE o.rq \in g.inflight /\ r <= o.rq
      <4>1. o.rq = r \/ r < o.rq BY <1>1, <2>2, <3>2
      <4>2. o.rq \in h.inflight BY <1>1, <2>3, <3>2, <4>1
      <4> QED BY <3>2, <4>2 DEF Latest
    <3> QED BY <2>3, <3>1, <3>2 DEF Latest
  <2>4. b \in h.others => o.shared BY <1>1, <2>1 DEF Watches
  <2>5. o.rq \in h.inflight => b \in h.uses[o.rq] BY <1>1, <2>1 DEF Watches
  <2>6. Calm /\ o.domain \in {"cpu", "gtt"} => Unused(h, b) BY <1>1, <2>1 DEF Watches, Unused
  <2>7. ASSUME Watched, NEW r \in h.inflight, b \in h.writes[r]
        PROVE  o.needs_flush /\ Latest(o, h, k.next, r)
    <3>1. b \in g.writes[r] /\ r \in g.inflight BY <1>1, <2>7
    <3>2. o.needs_flush /\ Latest(o, g, k.next, r) BY <2>1, <2>7, <3>1 DEF Watches
    <3>3. o.rq \in g.inflight => After(g, o.rq, r) BY <2>1, <3>1 DEF Watches, After
    <3> QED BY <2>3, <3>2, <3>3
  <2>8. ASSUME Ordered, NEW r \in h.inflight, b \in h.uses[r] PROVE Latest(o, h, k.next, r)
    <3>1. b \in g.uses[r] /\ r \in g.inflight BY <1>1, <2>8
    <3>2. Latest(o, g, k.next, r) BY <2>1, <2>8, <3>1 DEF Watches
    <3>3. o.rq \in g.inflight => After(g, o.rq, r) BY <2>1, <2>8, <3>1 DEF Watches, After, Ordered
    <3> QED BY <2>3, <3>2, <3>3
  <2>9. Watches(o, b, h, k.next) BY <2>4, <2>5, <2>6, <2>7, <2>8 DEF Watches
  <2> QED BY <2>9 DEF o
<1> QED BY <1>3, <1>4, <1>5 DEF Agree, AllSeen, Seen

\* The fields that Completed assigns.
LEMMA CompletedFields ==
  ASSUME NEW g \in Gpu, NEW C
  PROVE  /\ Completed(g, C).inflight = g.inflight \ C /\ Completed(g, C).others = g.others
         /\ \A r \in Req \ C : /\ Completed(g, C).ring[r] = g.ring[r]
                               /\ Completed(g, C).uses[r] = g.uses[r]
                               /\ Completed(g, C).writes[r] = g.writes[r]
  BY DEF Completed, Gpu

\* What the kernel completes.
LEMMA CompletedFewer ==
  ASSUME NEW g \in Gpu, NEW C \in Completions(g)
  PROVE  /\ Fewer(g, Completed(g, C))
         /\ \A S : Fewer(g, [Completed(g, C) EXCEPT !.others = @ \ S])
<1> DEFINE h == Completed(g, C)
<1>1. /\ C \subseteq g.inflight
      /\ \A r \in C, s \in g.inflight \ C : s < r => ~After(g, r, s)
  BY DEF Completions
<1>2. g.inflight \subseteq Req BY DEF Gpu
<1>3. /\ h.inflight = g.inflight \ C /\ h.others = g.others
      /\ \A r \in Req \ C : /\ h.ring[r] = g.ring[r] /\ h.uses[r] = g.uses[r]
                            /\ h.writes[r] = g.writes[r]
  BY CompletedFields
<1>4. h \in Gpu BY CompletedType
<1> HIDE DEF h
<1>5. Fewer(g, h) BY <1>1, <1>2, <1>3 DEF Fewer
<1>6. ASSUME NEW S PROVE Fewer(g, [h EXCEPT !.others = @ \ S])
  <2> DEFINE f == [h EXCEPT !.others = @ \ S]
  <2>1. /\ f.inflight = h.inflight /\ f.ring = h.ring /\ f.uses = h.uses /\ f.writes = h.writes
        /\ f.others = h.others \ S
    BY <1>4 DEF Gpu
  <2> HIDE DEF f
  <2>2. Fewer(g, f) BY <1>5, <2>1 DEF Fewer
  <2> QED BY <2>2 DEF f
<1> QED BY <1>5, <1>6 DEF h

\* All requests at once.
LEMMA AllCompleted ==
  ASSUME NEW g \in Gpu PROVE g.inflight \in Completions(g)
  BY DEF Completions, Gpu

\* What kgem waits for.
LEMMA WaitAgrees ==
  ASSUME NEW k, Tracked(k), NEW g \in Gpu, Agree(k, g), NEW b
  PROVE  /\ \A h \in WaitIdle(g, b) : h \in Gpu /\ Agree(k, h) /\ ~Busy(h, b)
         /\ \A h \in WaitWritten(g, b) : h \in Gpu /\ Agree(k, h) /\ ~Written(h, b)
<1>1. ASSUME NEW h \in WaitIdle(g, b) PROVE Agree(k, h)
  <2>1. PICK C \in Completions(g) : h = [Completed(g, C) EXCEPT !.others = @ \ {b}]
    BY <1>1 DEF WaitIdle
  <2> QED BY <2>1, CompletedFewer, FewerAgrees
<1>2. ASSUME NEW h \in WaitWritten(g, b) PROVE Agree(k, h)
  <2>1. PICK C \in Completions(g) : h = [Completed(g, C) EXCEPT !.others = @ \ {b}]
    BY <1>2 DEF WaitWritten
  <2> QED BY <2>1, CompletedFewer, FewerAgrees
<1>3. \A h \in WaitIdle(g, b) : ~Busy(h, b) BY DEF WaitIdle
<1>4. \A h \in WaitWritten(g, b) : ~Written(h, b) BY DEF WaitWritten
<1> QED BY <1>1, <1>2, <1>3, <1>4, WaitType

-----------------------------------------------------------------------------
(* Submitting the batch, and handing out bo.                                 *)

\* What a submission starts from: a batch bo that nothing uses, in agreement
\* with what the kernel knows after the search for it closed some handles.
LEMMA NewBatchAgrees ==
  ASSUME NEW k, Tracked(k), NEW g \in Gpu, Agree(k, g), NEW s \in Searches(k, g),
         NEW c \in InCache(s, "inactive") \cup InCache(s, "freed")
  PROVE  /\ Closed(g, s) \in Gpu
         /\ Agree(kgem_create_batch(s, c), Closed(g, s))
         /\ kgem_create_batch(s, c).wedged <=> k.wedged
<1>1. Agree(s, g) /\ (s.wedged <=> k.wedged) BY SearchesAgree
<1>2. Tracked(s) BY SearchesTracked
<1>3. c \in Bo BY NewBatch
<1>4. Closed(g, s) \in Gpu BY ClosedType
<1>5. Agree(s, Closed(g, s)) BY <1>1, <1>2, ClosedAgrees
<1>6. s.bo[c].list = "freed" => ~Busy(Closed(g, s), c) BY <1>3, ClosedIdle
<1> HIDE DEF Searches, InCache, Closed, Agree, Tracked, kgem_create_batch
<1>7. /\ Agree(kgem_create_batch(s, c), Closed(g, s))
      /\ kgem_create_batch(s, c).wedged <=> s.wedged
  BY <1>2, <1>3, <1>5, <1>6, CreateBatchAgrees
<1> QED BY <1>1, <1>4, <1>7

\* The outcomes of a submission.
LEMMA SubmitAgrees ==
  ASSUME NEW k, Tracked(k), NEW g \in Gpu, Agree(k, g), NEW p \in _kgem_submit(k, g)
  PROVE  Agree(p[1], p[2])
<1>1. ~(k.wedged \/ k.next > MaxReq) BY DEF _kgem_submit
<1>s. PICK s \in Searches(k, g) : \E c \in InCache(s, "inactive") \cup InCache(s, "freed") :
           p = <<kgem_commit(kgem_create_batch(s, c)),
                 Execbuf(Closed(g, s), kgem_create_batch(s, c))>>
  BY <1>1 DEF _kgem_submit
<1>2. PICK c \in InCache(s, "inactive") \cup InCache(s, "freed") :
           p = <<kgem_commit(kgem_create_batch(s, c)),
                 Execbuf(Closed(g, s), kgem_create_batch(s, c))>>
  BY <1>s
<1> DEFINE k1 == kgem_create_batch(s, c)
           g1 == Closed(g, s)
<1>3. p[1] = kgem_commit(k1) /\ p[2] = Execbuf(g1, k1) BY <1>2
<1>4. Tracked(k1) /\ k1.next = k.next BY NewBatch
<1>5. g1 \in Gpu /\ Agree(k1, g1) /\ (k1.wedged <=> k.wedged) BY NewBatchAgrees
<1> HIDE DEF k1, g1
<1>6. k1.next <= MaxReq
  <2>1. k.next <= MaxReq BY <1>1, BoundsAssumption DEF Tracked, Sound, Kgem
  <2> QED BY <1>4, <2>1
<1> QED BY <1>1, <1>3, <1>4, <1>5, <1>6, CommitAgrees

\* kgem_bo_submit.
LEMMA BoSubmitAgrees ==
  ASSUME NEW k, Tracked(k), NEW g \in Gpu, Agree(k, g), NEW b \in Bo, NEW p \in BoSubmit(k, g, b)
  PROVE  Agree(p[1], p[2])
<1>1. CASE k.bo[b].exec BY <1>1, SubmitAgrees DEF BoSubmit
<1>2. CASE ~k.bo[b].exec BY <1>2 DEF BoSubmit
<1> QED BY <1>1, <1>2

\* A bo handed to a client.
LEMMA HandedAgrees ==
  ASSUME NEW k, Tracked(k), NEW g, Agree(k, g), NEW b \in Bo, NEW o \in BoState,
         Watches(o, b, g, k.next)
  PROVE  Agree(Handed(k, b, o), g)
<1> DEFINE p == [o EXCEPT !.refcnt = 1, !.list = "none"]
<1>1. p.rq = o.rq /\ p.shared = o.shared /\ p.domain = o.domain /\ p.needs_flush = o.needs_flush
  BY DEF BoState
<1>2. Handed(k, b, o) = Update(k, [k.bo EXCEPT ![b] = p], k.flushing) BY DEF Handed
<1>3. k \in Kgem BY DEF Tracked, Sound
<1> HIDE DEF p
<1>4. Seen(p, b, g, k.next) BY <1>1 DEF Seen, Watches, Latest
<1>5. Agree(Update(k, [k.bo EXCEPT ![b] = p], k.flushing), g) BY <1>3, <1>4, OneBoAgrees
<1> QED BY <1>2, <1>5

\* A fresh bo that becomes a framebuffer is mapped through the GTT, idle or not:
\* it is idle if bo->rq tells of every use.
LEMMA MadeWatches ==
  ASSUME NEW g, NEW nx, nx \in Nat \ {0}, Flying(g, nx), NEW b, NEW o, Fresh(o),
         Watches(o, b, g, nx), NEW p \in MadeScanout(o) \cup MadeSnooped(o)
  PROVE  p \in BoState /\ Watches(p, b, g, nx)
<1> DEFINE s == [o EXCEPT !.scanout = TRUE, !.domain = "gtt"]
           n == [o EXCEPT !.snoop = TRUE]
<1>1. o \in BoState /\ o.rq = NoRq BY DEF Fresh
<1>2. /\ s \in BoState /\ n \in BoState
      /\ s.rq = o.rq /\ s.shared = o.shared /\ s.needs_flush = o.needs_flush /\ s.domain = "gtt"
      /\ n.rq = o.rq /\ n.shared = o.shared /\ n.needs_flush = o.needs_flush
      /\ n.domain = o.domain
  BY <1>1, Values DEF BoState
<1>3. p \in {o, n} \/ ("scanout" \in Kinds /\ p = s) BY DEF MadeScanout, MadeSnooped
<1> HIDE DEF s, n
<1>4. Watches(n, b, g, nx) BY <1>2, WatchesGrows
<1>5. CASE "scanout" \in Kinds
  <2>1. NoRq \notin g.inflight /\ NoRq \notin {Foreign, nx} BY NotFlying DEF NoRq, Foreign
  <2>2. Hushed(g, b) BY <1>1, <2>1, PastHushed
  <2>3. ~Watched /\ (Calm => Unused(g, b)) BY <1>5, <2>2 DEF Watched, Calm, Hushed
  <2>4. b \in g.others => s.shared BY <1>2 DEF Watches
  <2>5. s.rq \notin g.inflight BY <1>1, <1>2, <2>1
  <2>6. Ordered => Unused(g, b) BY <2>2 DEF Hushed
  <2>7. Watches(s, b, g, nx) BY <2>3, <2>4, <2>5, <2>6 DEF Watches, Unused
  <2> QED BY <1>1, <1>2, <1>3, <1>4, <2>7
<1> QED BY <1>1, <1>2, <1>3, <1>4, <1>5

\* A bo busier than it was, and one whose struct is in use.
LEMMA GrowsAgrees ==
  ASSUME NEW k, Tracked(k), NEW g, Agree(k, g), NEW b \in Bo, k.bo[b].list # "freed", NEW p,
         k.bo[b].shared => p.shared, k.bo[b].needs_flush => p.needs_flush,
         p.rq = k.bo[b].rq \/ p.rq \in {Foreign, k.next},
         p.domain = k.bo[b].domain \/ p.domain \notin {"cpu", "gtt"}
  PROVE  /\ Agree([k EXCEPT !.bo[b] = p], g)
         /\ \A S : Agree(Update(k, [k.bo EXCEPT ![b] = p], S), g)
<1>1. k.next \in Nat \ {0} /\ Flying(g, k.next) /\ Watches(k.bo[b], b, g, k.next) BY AgreeBo
<1>2. Watches(p, b, g, k.next) BY <1>1, WatchesGrows
<1>3. Seen(p, b, g, k.next) /\ k \in Kgem BY <1>2 DEF Seen, Tracked, Sound
<1> QED BY <1>3, OneBoAgrees

-----------------------------------------------------------------------------
(* The specification.                                                        *)

\* No request uses the handle of a struct that is not in use: it was closed.
Handles(k, g) == \A b \in Bo : k.bo[b].list = "freed" => Unused(g, b)

Agreed == Agree(kgem, gpu) /\ Handles(kgem, gpu)

\* The state after a call, with the handles closed that it gave up.
LEMMA StepAgrees ==
  ASSUME NEW k, Tracked(k), NEW g \in Gpu, Agree(k, g), Step(k, g) PROVE Agreed'
<1>1. Agree(k, Closed(g, k)) BY ClosedAgrees
<1>2. \A b \in Bo : k.bo[b].list = "freed" => ~Busy(Closed(g, k), b) BY ClosedIdle
<1>3. Flying(Closed(g, k), k.next) BY <1>1 DEF Agree
<1>4. Handles(k, Closed(g, k)) BY <1>2, <1>3, IdleUnused DEF Handles
<1>5. kgem' = k /\ gpu' = Closed(g, k) BY DEF Step
<1> HIDE DEF Closed
<1> QED BY <1>1, <1>4, <1>5 DEF Agreed

\* They agree when kgem_init returns.
LEMMA InitAgrees == Init => Agreed
<1> SUFFICES ASSUME Init PROVE Agreed OBVIOUS
<1>1. /\ kgem.bo = [b \in Bo |-> Freed] /\ kgem.requests = [n \in Ring |-> {}]
      /\ gpu.inflight = {} /\ ~kgem.wedged
  BY DEF Init
<1>2. Flying(gpu, kgem.next) /\ InOrder(kgem, gpu)
  BY <1>1 DEF Flying, InOrder, Outstanding
<1>3. AllSeen(kgem, gpu) BY <1>1, FreedSeen DEF AllSeen
<1>4. Handles(kgem, gpu) BY <1>1 DEF Handles, Unused
<1> QED BY <1>2, <1>3, <1>4 DEF Agreed, Agree

\* What kgem_create_for_name and kgem_create_for_prime make of a struct that was
\* not in use: the object is shared, and no request of ours uses it.
LEMMA ImportWatches ==
  ASSUME NEW g, NEW nx, nx \in Nat \ {0}, Flying(g, nx), NEW b, Unused(g, b),
         NEW p \in {kgem_bo_unclean(Imported)} \cup MadeForeign(Imported)
  PROVE  p \in BoState /\ Watches(p, b, g, nx)
<1> DEFINE o == Imported
           u == kgem_bo_unclean(o)
           s == [o EXCEPT !.scanout = TRUE]
           n == [o EXCEPT !.snoop = TRUE]
<1>1. NewBo \in BoState BY NewBoSound DEF SoundBo
<1>2. o \in BoState /\ o.shared /\ o.rq = NewBo.rq /\ o.domain = "none"
  BY <1>1, Values DEF BoState, Imported
<1>3. NewBo.rq = NoRq BY DEF NewBo, Freed
<1>4. p \in {u, o, s, n} BY DEF MadeForeign
<1> HIDE DEF o
<1>5. u \in BoState /\ u.shared /\ u.rq = Foreign /\ u.domain = "none"
  BY <1>2, <1>3, Values DEF BoState, kgem_bo_unclean
<1>6. s \in BoState /\ s.shared /\ s.rq = o.rq /\ s.domain = o.domain BY <1>2 DEF BoState
<1>7. n \in BoState /\ n.shared /\ n.rq = o.rq /\ n.domain = o.domain BY <1>2 DEF BoState
<1> HIDE DEF u, s, n
<1>8. p \in BoState /\ p.shared /\ p.rq \in {NoRq, Foreign} /\ p.domain = "none"
  BY <1>2, <1>3, <1>4, <1>5, <1>6, <1>7
<1>9. p.rq \notin g.inflight BY <1>8, NotFlying
<1>10. Unwritten(g, b) BY DEF Unused, Unwritten, Flying
<1> QED BY <1>8, <1>9, <1>10, WatchesHushed DEF Hushed

\* A bo whose name is given to another process.
LEMMA ExportAgrees ==
  ASSUME NEW k, Tracked(k), NEW g, Agree(k, g), NEW b \in Bo, Client(k.bo[b]),
         NEW p \in {kgem_bo_unclean(Exported(k.bo[b])), Exported(k.bo[b])}
  PROVE  Agree([k EXCEPT !.bo[b] = p], g)
<1> DEFINE q == k.bo[b]
           o == Exported(q)
           u == kgem_bo_unclean(o)
<1>1. q \in BoState /\ q.list # "freed" BY ClientBo, TrackedBo
<1>2. /\ o \in BoState /\ o.shared /\ o.rq = q.rq
      /\ o.needs_flush = q.needs_flush /\ o.domain = q.domain
  BY <1>1 DEF BoState, Exported
<1>p. p \in {u, o} OBVIOUS
<1> HIDE DEF o
<1>3. /\ u.shared /\ u.needs_flush /\ u.rq = (IF o.rq = NoRq THEN Foreign ELSE o.rq)
      /\ u.domain = (IF o.domain = "gpu" THEN "gpu" ELSE "none")
  BY <1>2, Values DEF BoState, kgem_bo_unclean
<1> HIDE DEF u
<1>4. /\ p.shared /\ (q.needs_flush => p.needs_flush)
      /\ p.rq = q.rq \/ p.rq = Foreign
      /\ p.domain = q.domain \/ p.domain \notin {"cpu", "gtt"}
  BY <1>2, <1>3, <1>p
<1> QED BY <1>1, <1>4, GrowsAgrees

\* kgem_create_linear, kgem_create_2d and the import of foreign objects.
LEMMA CreateAgrees ==
  ASSUME IInv, Books, Agreed, Books', NEW b \in Bo,
         \/ KgemCreate(b) \/ KgemReuseInactive(b) \/ KgemReuseActive(b) \/ KgemRetireActive(b)
         \/ KgemReuseSnoop(b) \/ KgemReuseScanout(b) \/ KgemImport(b) \/ KgemExport(b)
  PROVE  Agreed'
<1>1. Tracked(kgem) /\ gpu \in Gpu /\ Agree(kgem, gpu) /\ Handles(kgem, gpu)
  BY DEF IInv, Books, Agreed
<1>2. \A k \in Searched : Tracked(k) /\ Agree(k, gpu)
  BY <1>1, SearchesTracked, SearchesAgree DEF Searched
<1>s. ASSUME NEW k, NEW g \in Gpu, Agree(k, g), Step(k, g) PROVE Agreed'
  BY <1>s, StepAgrees DEF Step, Books
<1>w. ASSUME NEW k, Tracked(k), NEW g, Agree(k, g), k.bo[b].list # "freed"
      PROVE  k.bo[b] \in BoState /\ Watches(k.bo[b], b, g, k.next)
             /\ k.next \in Nat \ {0} /\ Flying(g, k.next)
  BY <1>w, AgreeBo
<1> HIDE DEF Searched
<1>3. CASE KgemCreate(b)
  <2>1. PICK k \in Searched : /\ k.bo[b].list = "freed"
                              /\ \E o \in MadeScanout(NewBo) \cup MadeSnooped(NewBo) :
                                   Step(Handed(k, b, o), Closed(gpu, k))
    BY <1>3 DEF KgemCreate
  <2>2. PICK o \in MadeScanout(NewBo) \cup MadeSnooped(NewBo) :
             Step(Handed(k, b, o), Closed(gpu, k))
    BY <2>1
  <2>3. Closed(gpu, k) \in Gpu /\ Agree(k, Closed(gpu, k)) /\ ~Busy(Closed(gpu, k), b)
    BY <1>1, <1>2, <2>1, ClosedType, ClosedAgrees, ClosedIdle
  <2> HIDE DEF Closed
  <2>4. k.next \in Nat \ {0} /\ Flying(Closed(gpu, k), k.next) BY <1>2, <2>3, AgreeBo
  <2>5. Watches(NewBo, b, Closed(gpu, k), k.next) BY <2>3, <2>4, NewBoWatches
  <2>6. o \in BoState /\ Watches(o, b, Closed(gpu, k), k.next)
    BY <2>4, <2>5, NewBoFresh, MadeWatches
  <2>7. Agree(Handed(k, b, o), Closed(gpu, k)) BY <1>2, <2>3, <2>6, HandedAgrees
  <2> QED BY <1>s, <2>2, <2>3, <2>7
<1>4. CASE KgemReuseInactive(b)
  <2>1. PICK k \in Searched : /\ k.bo[b].list = "inactive"
                              /\ \E o \in MadeScanout(k.bo[b]) \cup MadeSnooped(k.bo[b]) :
                                   Step(Handed(k, b, o), gpu)
    BY <1>4 DEF KgemReuseInactive
  <2>2. PICK o \in MadeScanout(k.bo[b]) \cup MadeSnooped(k.bo[b]) : Step(Handed(k, b, o), gpu)
    BY <2>1
  <2>3. Fresh(k.bo[b]) BY <1>2, <2>1, CachedFree
  <2>4. Watches(k.bo[b], b, gpu, k.next) /\ k.next \in Nat \ {0} /\ Flying(gpu, k.next)
    BY <1>2, <1>w, <2>1
  <2>5. o \in BoState /\ Watches(o, b, gpu, k.next) BY <2>3, <2>4, MadeWatches
  <2>6. Agree(Handed(k, b, o), gpu) BY <1>2, <2>5, HandedAgrees
  <2> QED BY <1>1, <1>s, <2>2, <2>6
<1>5. CASE KgemReuseActive(b)
  <2> DEFINE k == [kgem EXCEPT !.flushing = @ \ {b}]
  <2>1. /\ k.bo = kgem.bo /\ k.requests = kgem.requests
        /\ k.next = kgem.next /\ k.wedged = kgem.wedged
    BY <1>1 DEF Tracked, Sound, Kgem
  <2>2. Step(Handed(k, b, kgem.bo[b]), gpu) /\ kgem.bo[b].list = "active"
    BY <1>5 DEF KgemReuseActive
  <2>3. Handed(k, b, kgem.bo[b])
          = Update(k, [kgem.bo EXCEPT ![b] = [kgem.bo[b] EXCEPT !.refcnt = 1, !.list = "none"]],
                   k.flushing)
    BY <2>1 DEF Handed
  <2>4. kgem.bo[b] \in BoState /\ Watches(kgem.bo[b], b, gpu, kgem.next)
    BY <1>1, <1>w, <2>2
  <2>5. Agree(Handed(kgem, b, kgem.bo[b]), gpu) BY <1>1, <2>4, HandedAgrees
  <2>6. /\ Handed(k, b, kgem.bo[b]).bo = Handed(kgem, b, kgem.bo[b]).bo
        /\ Handed(k, b, kgem.bo[b]).requests = Handed(kgem, b, kgem.bo[b]).requests
        /\ Handed(k, b, kgem.bo[b]).next = Handed(kgem, b, kgem.bo[b]).next
        /\ Handed(k, b, kgem.bo[b]).wedged = Handed(kgem, b, kgem.bo[b]).wedged
    BY <1>1, <2>1 DEF Handed, Update, Tracked, Sound, Kgem
  <2>7. Agree(Handed(k, b, kgem.bo[b]), gpu) BY <2>5, <2>6, SameAgrees
  <2> QED BY <1>1, <1>s, <2>2, <2>7
<1>6. CASE KgemRetireActive(b)
  <2>1. kgem.bo[b].list = "active" /\ ~kgem.bo[b].exec /\ ~Busy(gpu, b)
    BY <1>6 DEF KgemRetireActive
  <2>2. PICK o \in MadeScanout(__kgem_bo_clear_busy(kgem.bo[b])) : Step(Handed(kgem, b, o), gpu)
    BY <1>6 DEF KgemRetireActive
  <2>3. Fresh(__kgem_bo_clear_busy(kgem.bo[b])) BY <1>1, <2>1, CachedFree
  <2>4. Seen(__kgem_bo_clear_busy(kgem.bo[b]), b, gpu, kgem.next) BY <1>1, <2>1, ClearIdleSeen
  <2>5. __kgem_bo_clear_busy(kgem.bo[b]).list # "freed"
    BY <1>1, <1>w, <2>1 DEF __kgem_bo_clear_busy, BoState
  <2>6. kgem.next \in Nat \ {0} /\ Flying(gpu, kgem.next) BY <1>1, <1>w, <2>1
  <2>7. o \in BoState /\ Watches(o, b, gpu, kgem.next)
    BY <2>2, <2>3, <2>4, <2>5, <2>6, MadeWatches DEF Seen
  <2>8. Agree(Handed(kgem, b, o), gpu) BY <1>1, <2>7, HandedAgrees
  <2> QED BY <1>1, <1>s, <2>2, <2>8
<1>7. CASE KgemReuseSnoop(b)
  <2>1. PICK k \in Searched : k.bo[b].list = "snoop" /\ Step(Handed(k, b, k.bo[b]), gpu)
    BY <1>7 DEF KgemReuseSnoop
  <2>2. Agree(Handed(k, b, k.bo[b]), gpu) BY <1>2, <1>w, <2>1, HandedAgrees
  <2> QED BY <1>1, <1>s, <2>1, <2>2
<1>8. CASE KgemReuseScanout(b)
  <2>1. kgem.bo[b].list = "scanout" /\ Step(Handed(kgem, b, kgem.bo[b]), gpu)
    BY <1>8 DEF KgemReuseScanout
  <2>2. Agree(Handed(kgem, b, kgem.bo[b]), gpu) BY <1>1, <1>w, <2>1, HandedAgrees
  <2> QED BY <1>1, <1>s, <2>1, <2>2
<1>9. CASE KgemImport(b)
  <2>1. "foreign" \in Kinds /\ kgem.bo[b].list = "freed" BY <1>9 DEF KgemImport
  <2>2. PICK p \in {kgem_bo_unclean(Imported)} \cup MadeForeign(Imported) :
             Step(Handed(kgem, b, p), gpu)
    BY <1>9 DEF KgemImport, Imported
  <2>3. kgem.next \in Nat \ {0} /\ Flying(gpu, kgem.next) BY <1>1, AgreeBo
  <2>4. Unused(gpu, b) BY <1>1, <2>1 DEF Handles
  <2>5. p \in BoState /\ Watches(p, b, gpu, kgem.next) BY <2>3, <2>4, ImportWatches
  <2>6. Agree(Handed(kgem, b, p), gpu) BY <1>1, <2>5, HandedAgrees
  <2> QED BY <1>1, <1>s, <2>2, <2>6
<1>10. CASE KgemExport(b)
  <2>1. Client(kgem.bo[b])
    BY <1>10 DEF KgemExport, Held, Referenced, Client, Owned
  <2>2. PICK p \in {kgem_bo_unclean(Exported(kgem.bo[b])), Exported(kgem.bo[b])} :
             Step([kgem EXCEPT !.bo[b] = p], gpu)
    BY <1>10 DEF KgemExport, Exported
  <2>3. Agree([kgem EXCEPT !.bo[b] = p], gpu) BY <1>1, <2>1, ExportAgrees
  <2> QED BY <1>1, <1>s, <2>2, <2>3
<1> QED BY <1>3, <1>4, <1>5, <1>6, <1>7, <1>8, <1>9, <1>10

\* Taking and dropping references.  A bo whose last reference is dropped while
\* the batch holds nothing else is undone only where batches are discarded.
LEMMA ReferencesAgree ==
  ASSUME IInv, Books, Agreed, Books', NEW b \in Bo,
         KgemReference(b) \/ KgemReferenceFence(b) \/ KgemDestroy(b)
  PROVE  Agreed'
<1>1. Tracked(kgem) /\ gpu \in Gpu /\ Agree(kgem, gpu) /\ kgem.bo[b] \in BoState
  BY TrackedBo DEF IInv, Books, Agreed
<1>2. kgem.bo[b].refcnt \in Nat BY <1>1 DEF BoState
<1>s. ASSUME NEW k, Agree(k, gpu), Step(k, gpu) PROVE Agreed'
  BY <1>1, <1>s, StepAgrees DEF Step, Books
<1>3. ASSUME NEW n PROVE Agree([kgem EXCEPT !.bo[b].refcnt = n], gpu)
  <2> DEFINE o == kgem.bo[b]
             p == [o EXCEPT !.refcnt = n]
  <2>1. /\ p.rq = o.rq /\ p.shared = o.shared /\ p.domain = o.domain
        /\ p.needs_flush = o.needs_flush /\ p.list = o.list
    BY <1>1 DEF BoState
  <2>2. [kgem EXCEPT !.bo[b].refcnt = n] = [kgem EXCEPT !.bo[b] = p]
    BY <1>1 DEF Tracked, Sound, Kgem
  <2>3. Seen(o, b, gpu, kgem.next) /\ kgem \in Kgem BY <1>1, AgreeBo DEF Tracked, Sound
  <2> HIDE DEF o, p
  <2>4. Seen(p, b, gpu, kgem.next) BY <2>1, <2>3 DEF Seen, Watches, Latest
  <2> QED BY <1>1, <2>2, <2>3, <2>4, OneBoAgrees
<1>4. CASE KgemReference(b) \/ KgemReferenceFence(b)
  <2>1. Step([kgem EXCEPT !.bo[b].refcnt = kgem.bo[b].refcnt + 1], gpu)
    BY <1>4 DEF KgemReference, KgemReferenceFence
  <2> QED BY <1>3, <1>s, <2>1
<1>5. CASE KgemDestroy(b)
  <2> DEFINE n == kgem.bo[b].refcnt - 1
             k == [kgem EXCEPT !.bo[b].refcnt = n]
  <2>1. n \in Nat /\ (kgem.bo[b].batch => n > 0) /\ kgem.bo[b].refcnt > 0
    BY <1>2, <1>5 DEF KgemDestroy, Referenced
  <2>2. IF k.bo[b].refcnt > 0 THEN Step(k, gpu)
        ELSE /\ Recyclable(k.bo[b]) /\ ExecList(k) = {b} => Undo
             /\ \E keep \in BOOLEAN : Step(Unreferenced(k, b, keep), gpu)
    BY <1>5 DEF KgemDestroy
  <2>3. Agree(k, gpu) BY <1>3
  <2> HIDE DEF n
  <2>4. TrackedBut(k, {b}) /\ k.bo[b].refcnt = n
    BY <1>1, <2>1, ReferenceTracked
  <2> HIDE DEF k
  <2>5. CASE n > 0 BY <1>s, <2>2, <2>3, <2>4, <2>5
  <2>6. CASE n = 0
    <3>1. Recyclable(k.bo[b]) /\ ExecList(k) = {b} => Undo BY <2>2, <2>4, <2>6
    <3>2. PICK keep \in BOOLEAN : Step(Unreferenced(k, b, keep), gpu) BY <2>2, <2>4, <2>6
    <3>3. Agree(Unreferenced(k, b, keep), gpu)
      BY <1>1, <2>3, <2>4, <2>6, <3>1, UnreferencedAgrees
    <3> QED BY <1>s, <3>2, <3>3
  <2> QED BY <2>1, <2>5, <2>6
<1> QED BY <1>4, <1>5

\* A bo is put on the exec list: it belongs to the batch.
LEMMA AddRelocAgrees ==
  ASSUME IInv, Books, Agreed, Books', NEW b \in Bo, NEW write \in BOOLEAN, KgemAddReloc(b, write)
  PROVE  Agreed'
<1> DEFINE o == kgem.bo[b]
           o1 == [o EXCEPT !.exec = TRUE, !.rq = kgem.next]
           o2 == IF write THEN [o1 EXCEPT !.write = TRUE, !.needs_flush = TRUE] ELSE o1
           k == Update(kgem, [kgem.bo EXCEPT ![b] = o2], kgem.flushing)
<1>1. Tracked(kgem) /\ gpu \in Gpu /\ Agree(kgem, gpu) BY DEF IInv, Books, Agreed
<1>2. Client(o) BY DEF KgemAddReloc, Held, Referenced, Client, Owned
<1>3. o.list # "freed" /\ o \in BoState BY <1>1, <1>2, ClientBo, TrackedBo
<1>4. Step(k, gpu) BY DEF KgemAddReloc
<1>5. o1.rq = kgem.next /\ o1.needs_flush = o.needs_flush /\ o1.shared = o.shared
      /\ o1.domain = o.domain
  BY <1>3 DEF BoState
<1>6. /\ o2.rq = kgem.next /\ (o.needs_flush => o2.needs_flush) /\ o2.shared = o.shared
      /\ o2.domain = o.domain
  BY <1>3, <1>5 DEF BoState
<1> HIDE DEF o2
<1>7. Agree(k, gpu) BY <1>1, <1>3, <1>6, GrowsAgrees
<1> HIDE DEF k
<1> QED BY <1>1, <1>4, <1>7, StepAgrees DEF Step, Books

\* kgem->ring tells nothing of the bo.
LEMMA RingAgrees ==
  ASSUME NEW k, Tracked(k), NEW g, Agree(k, g), NEW ring PROVE Agree([k EXCEPT !.ring = ring], g)
<1>1. k \in Kgem BY DEF Tracked, Sound
<1>2. /\ [k EXCEPT !.ring = ring].bo = k.bo /\ [k EXCEPT !.ring = ring].requests = k.requests
      /\ [k EXCEPT !.ring = ring].next = k.next /\ [k EXCEPT !.ring = ring].wedged = k.wedged
  BY <1>1 DEF Kgem
<1> QED BY <1>2, SameAgrees

\* do_execbuf that has to retry: the kernel may have completed everything.
LEMMA SubmitRetriesAgree ==
  ASSUME IInv, Books, Agreed, Books', KgemSubmitRetries PROVE Agreed'
<1> DEFINE done(h) == Completed(h, h.inflight)
           Retried(t, h) ==
             \E p \in Expired(t, h) :
               \/ Step(kgem_commit(p[1]), Execbuf(h, p[1]))
               \/ \E k1 \in CleanedUp(p[1], done(h)) : Step(kgem_commit(k1), Execbuf(done(h), k1))
<1>1. Tracked(kgem) /\ gpu \in Gpu /\ Agree(kgem, gpu) BY DEF IInv, Books, Agreed
<1>2. kgem.next <= MaxReq /\ ~kgem.wedged BY DEF KgemSubmitRetries
<1>3. PICK s \in Searched : \E c \in InCache(s, "inactive") \cup InCache(s, "freed") :
          \E t \in Searches(kgem_create_batch(s, c), Closed(gpu, s)) : Retried(t, Closed(gpu, s))
  BY DEF KgemSubmitRetries
<1>4. PICK c \in InCache(s, "inactive") \cup InCache(s, "freed") :
          \E t \in Searches(kgem_create_batch(s, c), Closed(gpu, s)) : Retried(t, Closed(gpu, s))
  BY <1>3
<1> DEFINE k == kgem_create_batch(s, c)
           h == Closed(gpu, s)
<1>5. s \in Searches(kgem, gpu) BY <1>3 DEF Searched
<1>6. /\ Tracked(k) /\ k.next = kgem.next
      /\ h \in Gpu /\ Agree(k, h) /\ ~k.wedged
  BY <1>1, <1>2, <1>4, <1>5, NewBatch, NewBatchAgrees
<1> HIDE DEF Retried, done, k, h, Searches
<1>7. PICK t \in Searches(k, h) : Retried(t, h) BY <1>4 DEF k, h
<1>8. Tracked(t) /\ t.next = kgem.next /\ Agree(t, h) /\ ~t.wedged
  BY <1>6, <1>7, SearchesTracked, SearchesAgree
<1>9. PICK p \in Expired(t, h) :
          \/ Step(kgem_commit(p[1]), Execbuf(h, p[1]))
          \/ \E k1 \in CleanedUp(p[1], done(h)) : Step(kgem_commit(k1), Execbuf(done(h), k1))
  BY <1>7 DEF Retried
<1>10. Tracked(p[1]) /\ p[1].next = kgem.next /\ Agree(p[1], h) /\ ~p[1].wedged
  BY <1>6, <1>8, <1>9, ExpiredTracked, ExpiredAgrees
<1>11. done(h) \in Gpu /\ Agree(p[1], done(h)) /\ done(h).inflight = {}
  <2>1. h.inflight \in Completions(h) BY <1>6, AllCompleted
  <2>2. Fewer(h, Completed(h, h.inflight)) BY <1>6, <2>1, CompletedFewer
  <2>3. Completed(h, h.inflight).inflight = {} BY <1>6, CompletedFields
  <2>4. Completed(h, h.inflight) \in Gpu BY <1>6, CompletedType
  <2> QED BY <1>10, <2>2, <2>3, <2>4, FewerAgrees DEF done
<1>12. ASSUME NEW k1, Tracked(k1), k1.next = kgem.next, NEW g \in Gpu, Agree(k1, g), ~k1.wedged,
              Step(kgem_commit(k1), Execbuf(g, k1))
       PROVE  Agreed'
  <2>1. k1.next <= MaxReq /\ k1 \in Kgem BY <1>2, <1>12 DEF Tracked, Sound
  <2>2. Agree(kgem_commit(k1), Execbuf(g, k1)) BY <1>12, <2>1, CommitAgrees
  <2>3. Execbuf(g, k1) \in Gpu BY <1>12, <2>1, ExecbufType
  <2> HIDE DEF Agreed
  <2> QED BY <1>12, <2>2, <2>3, StepAgrees DEF Step, Books
<1>13. ASSUME NEW k1 \in CleanedUp(p[1], done(h))
       PROVE  Tracked(k1) /\ k1.next = kgem.next /\ Agree(k1, done(h)) /\ ~k1.wedged
  BY <1>10, <1>11, CleanedUpTracked, CleanedUpAgrees
<1> QED BY <1>6, <1>9, <1>10, <1>11, <1>12, <1>13

\* The batch that can not be submitted is dropped, and every request with it: then
\* no bo is taken to be busy, whatever the GPU does.
LEMMA SubmitFailsAgrees ==
  ASSUME IInv, Books, Agreed, Books', KgemSubmitFails PROVE Agreed'
<1>1. Tracked(kgem) /\ gpu \in Gpu /\ Agree(kgem, gpu) BY DEF IInv, Books, Agreed
<1>2. "pressure" \in Kinds /\ ~Ordered BY DEF KgemSubmitFails, Ordered, NeverFails
<1>3. PICK s \in Searched : \E k :
        /\ k = s \/ \E c \in InCache(s, "inactive") \cup InCache(s, "freed") : k = kgem_create_batch(s, c)
        /\ Step(kgem_reset(kgem_cleanup([k EXCEPT !.wedged = TRUE]), Closed(gpu, s), {}), Closed(gpu, s))
  BY DEF KgemSubmitFails
<1>4. PICK k :
        /\ k = s \/ \E c \in InCache(s, "inactive") \cup InCache(s, "freed") : k = kgem_create_batch(s, c)
        /\ Step(kgem_reset(kgem_cleanup([k EXCEPT !.wedged = TRUE]), Closed(gpu, s), {}), Closed(gpu, s))
  BY <1>3
<1> DEFINE g == Closed(gpu, s)
           k1 == [k EXCEPT !.wedged = TRUE]
           k2 == kgem_cleanup(k1)
           k3 == kgem_reset(k2, g, {})
<1>5. g \in Gpu BY <1>1, ClosedType
<1>6. s \in Searches(kgem, gpu) BY <1>3 DEF Searched
<1> HIDE DEF Searches, Searched
<1>7. Tracked(k) /\ Agree(k, g)
  <2>1. Tracked(s) /\ Agree(s, gpu) BY <1>1, <1>6, SearchesTracked, SearchesAgree
  <2>2. Agree(s, g) BY <1>1, <2>1, ClosedAgrees
  <2> HIDE DEF g
  <2>3. CASE k = s BY <2>1, <2>2, <2>3
  <2>4. ASSUME NEW c \in InCache(s, "inactive") \cup InCache(s, "freed"), k = kgem_create_batch(s, c)
        PROVE  Tracked(k) /\ Agree(k, g)
    BY <1>1, <1>6, <2>4, NewBatch, NewBatchAgrees DEF g
  <2> QED BY <1>4, <2>3, <2>4
<1> HIDE DEF g
<1>8. Tracked(k1) /\ k1.wedged /\ k1.bo = k.bo /\ k1.next = k.next BY <1>2, <1>7, WedgedTracked
<1> HIDE DEF k1
<1>9. Flying(g, k1.next) /\ AllSeen(k1, g) BY <1>7, <1>8 DEF Agree, AllSeen
<1>10. Tracked(k2) /\ Agree(k2, g) BY <1>8, <1>9, CleanupTracked, CleanupAgrees
<1> HIDE DEF k2
<1>11. TrackedBut(k2, {}) BY <1>10, TrackedButNone
<1>12. Agree(k3, g) BY <1>2, <1>10, <1>11, ResetAgrees
<1> HIDE DEF k3
<1>13. Step(k3, g) BY <1>4 DEF k1, k2, k3, g
<1> QED BY <1>5, <1>12, <1>13, StepAgrees DEF Step, Books

\* Building, submitting and discarding a batch.
LEMMA BatchAgrees ==
  ASSUME IInv, Books, Agreed, Books',
         \/ \E b \in Bo, write \in BOOLEAN : KgemAddReloc(b, write)
         \/ \E b \in Bo, ring \in Ring : KgemSetMode(b, ring)
         \/ \E S \in SUBSET Bo : KgemUndo(S)
         \/ KgemSubmit \/ KgemSubmitRetries \/ KgemSubmitFails
  PROVE  Agreed'
<1>1. Tracked(kgem) /\ gpu \in Gpu /\ Agree(kgem, gpu) BY DEF IInv, Books, Agreed
<1>s. ASSUME NEW k, NEW g \in Gpu, Agree(k, g), Step(k, g) PROVE Agreed'
  BY <1>s, StepAgrees DEF Step, Books
<1>2. ASSUME NEW b \in Bo, NEW ring \in Ring, KgemSetMode(b, ring) PROVE Agreed'
  <2>1. PICK semaphore \in BOOLEAN :
          \E k \in {kgem, kgem_ring_is_idle(kgem, gpu, kgem.ring, semaphore)} :
          \/ \E p \in _kgem_submit(k, gpu) : Step([p[1] EXCEPT !.ring = ring], p[2])
          \/ Step([k EXCEPT !.ring = ring], gpu)
    BY <1>2 DEF KgemSetMode
  <2> PICK k \in {kgem, kgem_ring_is_idle(kgem, gpu, kgem.ring, semaphore)} :
          \/ \E p \in _kgem_submit(k, gpu) : Step([p[1] EXCEPT !.ring = ring], p[2])
          \/ Step([k EXCEPT !.ring = ring], gpu)
    BY <2>1
  <2>2. kgem.ring \in Ring BY <1>1 DEF Tracked, Sound, Kgem
  <2>3. Tracked(k) /\ Agree(k, gpu)
    BY <1>1, <2>2, KgemRingIsIdleTracked, KgemRingIsIdleAgrees
  <2>4. \A p \in _kgem_submit(k, gpu) : p[2] \in Gpu /\ Agree([p[1] EXCEPT !.ring = ring], p[2])
    BY <1>1, <2>3, SubmitTracked, SubmitAgrees, RingAgrees
  <2>5. Agree([k EXCEPT !.ring = ring], gpu) BY <2>3, RingAgrees
  <2> QED BY <1>1, <1>s, <2>4, <2>5
<1>3. ASSUME NEW S \in SUBSET Bo, KgemUndo(S) PROVE Agreed'
  <2>1. \A b \in Bo \cap S : Client(kgem.bo[b])
    BY <1>3 DEF KgemUndo, Held, Referenced, Client, Owned
  <2>2. \A b \in Bo \cap S : kgem.bo[b].refcnt > 0 /\ kgem.bo[b].list = "none"
    BY <1>1, <2>1, ClientBo
  <2>3. TrackedBut(kgem, S) BY <1>1, <2>2 DEF Tracked, TrackedBut, Good
  <2>4. Undo BY <1>3 DEF KgemUndo
  <2>5. Agree(kgem_bo_undo(kgem, gpu, S), gpu) BY <1>1, <2>3, <2>4, UndoAgrees
  <2> QED BY <1>1, <1>3, <1>s, <2>5 DEF KgemUndo
<1>4. CASE KgemSubmit
  <2>1. PICK p \in _kgem_submit(kgem, gpu) : Step(p[1], p[2]) BY <1>4 DEF KgemSubmit
  <2>2. p[2] \in Gpu /\ Agree(p[1], p[2]) BY <1>1, SubmitTracked, SubmitAgrees
  <2> QED BY <1>s, <2>1, <2>2
<1> QED BY <1>2, <1>3, <1>4, AddRelocAgrees, SubmitRetriesAgree, SubmitFailsAgrees

-----------------------------------------------------------------------------
(* Waiting for one bo.                                                       *)

\* The flags of a bo that is idle, or that nothing writes, tell nothing.
LEMMA FlagsAgree ==
  ASSUME NEW k, Tracked(k), NEW g, Agree(k, g), NEW b \in Bo, Client(k.bo[b]), NEW p,
         p.rq = k.bo[b].rq, p.shared = k.bo[b].shared,
         \/ ~Busy(g, b)
         \/ /\ ~Written(g, b) \/ ~Watched
            /\ p.domain = k.bo[b].domain \/ p.domain \notin {"cpu", "gtt"}
  PROVE  /\ Agree([k EXCEPT !.bo[b] = p], g)
         /\ \A S : Agree(Update(k, [k.bo EXCEPT ![b] = p], S), g)
<1> DEFINE o == k.bo[b]
<1>1. o.list # "freed" BY ClientBo
<1>2. k \in Kgem /\ Flying(g, k.next) /\ Watches(o, b, g, k.next)
  BY <1>1, AgreeBo DEF Tracked, Sound
<1>3. Watches(p, b, g, k.next)
  <2>1. CASE ~Busy(g, b)
    <3>1. Unused(g, b) /\ Hushed(g, b) /\ b \notin g.others BY <1>2, <2>1, IdleUnused DEF Hushed
    <3>2. p.rq \notin g.inflight BY <1>2, <3>1 DEF Watches, Unused
    <3> QED BY <3>1, <3>2, WatchesHushed
  <2>2. CASE /\ ~Written(g, b) \/ ~Watched
             /\ p.domain = o.domain \/ p.domain \notin {"cpu", "gtt"}
    <3>1. Watched => Unwritten(g, b) BY <2>2, CleanUnwritten
    <3>2. Watched => \A r \in g.inflight : b \in g.writes[r] => p.needs_flush /\ Latest(p, g, k.next, r)
      BY <3>1 DEF Unwritten
    <3>3. Ordered => \A r \in g.inflight : b \in g.uses[r] => Latest(p, g, k.next, r)
      BY <1>2 DEF Watches, Latest
    <3> QED BY <1>2, <2>2, <3>2, <3>3 DEF Watches
  <2> QED BY <2>1, <2>2
<1>4. Seen(p, b, g, k.next) BY <1>3 DEF Seen
<1> QED BY <1>2, <1>4, OneBoAgrees

\* A bo the CPU waited for: it is idle, and may be in the domain of the CPU.
LEMMA SyncedAgrees ==
  ASSUME NEW k, Tracked(k), NEW g \in Gpu, Agree(k, g), NEW b \in Bo, Client(k.bo[b]),
         ~k.bo[b].exec, ~Busy(g, b), NEW domain \in {"cpu", "gtt"}
  PROVE  Agree(Synced(k, g, b, domain), g)
<1> DEFINE k0 == [k EXCEPT !.bo[b].needs_flush = FALSE]
           p == [k.bo[b] EXCEPT !.needs_flush = FALSE]
           k1 == kgem_bo_retire(k0, g, b)
           q == [k1.bo[b] EXCEPT !.domain = domain]
<1>1. domain \in Domains /\ k.bo[b] \in BoState BY Values, TrackedBo
<1>2. Tracked(k0) /\ Client(k0.bo[b]) /\ ~k0.bo[b].exec BY <1>1, FlagsTracked
<1>3. k0 = [k EXCEPT !.bo[b] = p] BY DEF Tracked, Sound, Kgem
<1>4. p.rq = k.bo[b].rq /\ p.shared = k.bo[b].shared BY <1>1 DEF BoState
<1> HIDE DEF p, k0
<1>5. Agree(k0, g) BY <1>3, <1>4, FlagsAgree
<1>6. Tracked(k1) /\ Client(k1.bo[b]) BY <1>2, BoRetireClient
<1>7. Agree(k1, g) BY <1>2, <1>5, BoRetireAgrees
<1> HIDE DEF k1
<1>8. q.rq = k1.bo[b].rq /\ q.shared = k1.bo[b].shared BY <1>6, TrackedBo DEF BoState
<1>9. [k1 EXCEPT !.bo[b].domain = domain] = [k1 EXCEPT !.bo[b] = q]
  BY <1>6 DEF Tracked, Sound, Kgem
<1> HIDE DEF q
<1>10. Agree([k1 EXCEPT !.bo[b] = q], g) BY <1>6, <1>7, <1>8, FlagsAgree
<1> QED BY <1>9, <1>10 DEF Synced, k1, k0

\* A bo whose writers a caller waited for.
LEMMA ReadSyncedAgrees ==
  ASSUME NEW k, Tracked(k), NEW g \in Gpu, Agree(k, g), NEW b \in Bo, Client(k.bo[b]),
         ~k.bo[b].exec \/ ~k.bo[b].write, ~Written(g, b)
  PROVE  Agree(ReadSynced(k, g, b), g)
<1> DEFINE k1 == [k EXCEPT !.bo[b].needs_flush = FALSE]
           p == [k.bo[b] EXCEPT !.needs_flush = FALSE]
           k2 == IF k.bo[b].exec THEN k1 ELSE __kgem_bo_is_busy(k1, g, b)
           q == [k2.bo[b] EXCEPT !.domain = "none"]
<1>1. "none" \in Domains /\ k.bo[b] \in BoState BY Values, TrackedBo
<1>2. Tracked(k1) /\ Client(k1.bo[b]) /\ k1.bo[b].exec = k.bo[b].exec BY <1>1, FlagsTracked
<1>3. k1 = [k EXCEPT !.bo[b] = p] BY DEF Tracked, Sound, Kgem
<1>4. p.rq = k.bo[b].rq /\ p.shared = k.bo[b].shared /\ p.domain = k.bo[b].domain
  BY <1>1 DEF BoState
<1>r. ReadSynced(k, g, b) = [k2 EXCEPT !.bo[b].domain = "none"] BY DEF ReadSynced
<1> HIDE DEF p, k1
<1>5. Agree(k1, g) BY <1>3, <1>4, FlagsAgree
<1>6. Tracked(k2) /\ Client(k2.bo[b]) /\ Agree(k2, g)
  <2>1. CASE k.bo[b].exec BY <1>2, <1>5, <2>1
  <2>2. CASE ~k.bo[b].exec
    <3>1. Tracked(kgem_bo_retire(k1, g, b)) /\ Client(kgem_bo_retire(k1, g, b).bo[b])
      BY <1>2, <2>2, BoRetireClient
    <3>2. __kgem_bo_is_busy(k1, g, b) \in {k1, kgem_bo_retire(k1, g, b)}
      BY DEF __kgem_bo_is_busy
    <3>3. Agree(__kgem_bo_is_busy(k1, g, b), g) BY <1>2, <1>5, BoIsBusyAgrees
    <3> QED BY <1>2, <2>2, <3>1, <3>2, <3>3
  <2> QED BY <2>1, <2>2
<1> HIDE DEF k2
<1>7. q.rq = k2.bo[b].rq /\ q.shared = k2.bo[b].shared /\ q.domain = "none"
  BY <1>6, TrackedBo DEF BoState
<1>8. [k2 EXCEPT !.bo[b].domain = "none"] = [k2 EXCEPT !.bo[b] = q]
  BY <1>6 DEF Tracked, Sound, Kgem
<1> HIDE DEF q
<1>9. Agree([k2 EXCEPT !.bo[b] = q], g) BY <1>6, <1>7, <1>8, FlagsAgree
<1> QED BY <1>8, <1>9, <1>r

\* kgem_scanout_flush of a framebuffer: where there are framebuffers, needs_flush
\* tells nothing, as it clears it without waiting.
LEMMA ScanoutFlushAgrees ==
  ASSUME NEW k, Tracked(k), NEW g, Agree(k, g), NEW b \in Bo, Client(k.bo[b]),
         "scanout" \in Kinds, NEW S
  PROVE  Agree(Update(k, [k.bo EXCEPT ![b] = Flushed(g, b, k.bo[b])], S), g)
<1> DEFINE o == k.bo[b]
           c == __kgem_bo_clear_busy(o)
           p == [o EXCEPT !.domain = "none", !.needs_flush = FALSE]
           q == [c EXCEPT !.domain = "none", !.needs_flush = FALSE]
<1>1. o \in BoState /\ o.list # "freed" /\ k \in Kgem BY ClientBo, TrackedBo DEF Tracked, Sound
<1>2. Flushed(g, b, o) = IF o.rq # NoRq /\ ~Busy(g, b) THEN q ELSE p BY DEF Flushed
<1>3. ~Watched BY DEF Watched
<1>4. p.rq = o.rq /\ p.shared = o.shared /\ p.domain = "none" BY <1>1 DEF BoState
<1>5. q.rq = NoRq /\ q.shared = o.shared /\ q.domain = "none"
  BY <1>1 DEF BoState, __kgem_bo_clear_busy
<1> HIDE DEF p, q
<1>6. Agree(Update(k, [k.bo EXCEPT ![b] = p], S), g) BY <1>3, <1>4, FlagsAgree
<1>7. ASSUME ~Busy(g, b) PROVE Agree(Update(k, [k.bo EXCEPT ![b] = q], S), g)
  <2>1. k.next \in Nat \ {0} /\ Flying(g, k.next) BY AgreeBo
  <2>2. Hushed(g, b) /\ b \notin g.others BY <1>7, <2>1, IdleHushed, IdleUnused
  <2>3. Watches(q, b, g, k.next) BY <1>5, <2>1, <2>2, NotFlying, WatchesHushed
  <2> QED BY <1>1, <2>3, OneBoAgrees DEF Seen
<1> QED BY <1>2, <1>6, <1>7

\* A caller tells that a bo is busy, or idle.
LEMMA MarkBusyAgrees ==
  ASSUME IInv, Books, Agreed, Books', NEW b \in Bo, KgemBoMarkBusy(b) PROVE Agreed'
<1> DEFINE o == kgem.bo[b]
           busy == [o EXCEPT !.needs_flush = TRUE, !.rq = IF @ = NoRq THEN Foreign ELSE @]
           F == IF o.rq = NoRq THEN kgem.flushing \cup {b} ELSE kgem.flushing
           k == [kgem EXCEPT !.bo[b] = busy, !.flushing = F,
                             !.need_retire = @ \/ o.rq = NoRq]
<1>1. Tracked(kgem) /\ gpu \in Gpu /\ Agree(kgem, gpu) BY DEF IInv, Books, Agreed
<1>2. Client(o) BY DEF KgemBoMarkBusy, Held, Referenced, Client, Owned
<1>3. o.list # "freed" /\ o \in BoState BY <1>1, <1>2, ClientBo, TrackedBo
<1>s. ASSUME NEW k1, Agree(k1, gpu), Step(k1, gpu) PROVE Agreed'
  BY <1>1, <1>s, StepAgrees DEF Step, Books
<1>4. CASE Busy(gpu, b)
  <2>1. Step(k, gpu) BY <1>4 DEF KgemBoMarkBusy
  <2>2. /\ k.bo = [kgem EXCEPT !.bo[b] = busy].bo
        /\ k.requests = [kgem EXCEPT !.bo[b] = busy].requests
        /\ k.next = [kgem EXCEPT !.bo[b] = busy].next
        /\ k.wedged = [kgem EXCEPT !.bo[b] = busy].wedged
    BY <1>1 DEF Tracked, Sound, Kgem
  <2>3. /\ busy.needs_flush /\ (busy.rq = o.rq \/ busy.rq = Foreign)
        /\ busy.shared = o.shared /\ busy.domain = o.domain
    BY <1>3 DEF BoState
  <2> HIDE DEF k, busy
  <2>4. Agree([kgem EXCEPT !.bo[b] = busy], gpu) BY <1>1, <1>3, <2>3, GrowsAgrees
  <2> QED BY <1>s, <2>1, <2>2, <2>4, SameAgrees
<1>5. CASE ~Busy(gpu, b)
  <2>1. Step(Update(kgem, [kgem.bo EXCEPT ![b] = __kgem_bo_clear_busy(o)], kgem.flushing), gpu)
    BY <1>5 DEF KgemBoMarkBusy
  <2>2. Seen(__kgem_bo_clear_busy(o), b, gpu, kgem.next) BY <1>1, <1>5, ClearIdleSeen
  <2>3. kgem \in Kgem BY <1>1 DEF Tracked, Sound
  <2> HIDE DEF o
  <2>4. Agree(Update(kgem, [kgem.bo EXCEPT ![b] = __kgem_bo_clear_busy(o)], kgem.flushing), gpu)
    BY <1>1, <2>2, <2>3, OneBoAgrees
  <2> QED BY <1>s, <2>1, <2>4
<1> QED BY <1>4, <1>5

\* Asking and waiting for one bo.
LEMMA SyncAgrees ==
  ASSUME IInv, Books, Agreed, Books', NEW b \in Bo,
         \/ KgemBoIsBusy(b) \/ KgemBoSyncRead(b) \/ KgemScanoutFlush(b) \/ KgemBoMarkBusy(b)
         \/ \E domain \in {"cpu", "gtt"} : KgemBoSync(b, domain)
  PROVE  Agreed'
<1>1. Tracked(kgem) /\ gpu \in Gpu /\ Agree(kgem, gpu) BY DEF IInv, Books, Agreed
<1>s. ASSUME NEW k, NEW g \in Gpu, Agree(k, g), Step(k, g) PROVE Agreed'
  BY <1>s, StepAgrees DEF Step, Books
<1>2. CASE KgemBoIsBusy(b)
  BY <1>1, <1>2, <1>s, BoIsBusyAgrees DEF KgemBoIsBusy
<1>3. ASSUME NEW domain \in {"cpu", "gtt"}, KgemBoSync(b, domain) PROVE Agreed'
  <2>1. PICK p \in BoSubmit(kgem, gpu, b) :
          \/ Step(p[1], p[2])
          \/ \E g \in WaitIdle(p[2], b) : Step(Synced(p[1], g, b, domain), g)
    BY <1>3 DEF KgemBoSync
  <2>2. Client(kgem.bo[b]) BY <1>3 DEF KgemBoSync, Held, Referenced, Client, Owned
  <2>3. Tracked(p[1]) /\ p[2] \in Gpu /\ Client(p[1].bo[b]) /\ ~p[1].bo[b].exec
    BY <1>1, <2>2, BoSubmitTracked
  <2>4. Agree(p[1], p[2]) BY <1>1, BoSubmitAgrees
  <2>5. ASSUME NEW g \in WaitIdle(p[2], b), Step(Synced(p[1], g, b, domain), g) PROVE Agreed'
    <3>1. g \in Gpu /\ Agree(p[1], g) /\ ~Busy(g, b) BY <2>3, <2>4, WaitAgrees
    <3>2. Agree(Synced(p[1], g, b, domain), g) BY <2>3, <3>1, SyncedAgrees
    <3> QED BY <1>s, <2>5, <3>1, <3>2
  <2> QED BY <1>s, <2>1, <2>3, <2>4, <2>5
<1>4. CASE KgemBoSyncRead(b)
  <2>1. PICK p \in IF kgem.bo[b].needs_flush THEN BoSubmit(kgem, gpu, b) ELSE {<<kgem, gpu>>} :
          \/ Step(p[1], p[2])
          \/ \E g \in WaitWritten(p[2], b) : Step(ReadSynced(p[1], g, b), g)
    BY <1>4 DEF KgemBoSyncRead
  <2>2. Client(kgem.bo[b]) BY <1>4 DEF KgemBoSyncRead, Held, Referenced, Client, Owned
  <2>3. /\ Tracked(p[1]) /\ p[2] \in Gpu /\ Client(p[1].bo[b]) /\ Agree(p[1], p[2])
        /\ ~p[1].bo[b].exec \/ ~p[1].bo[b].write
    <3>1. CASE kgem.bo[b].needs_flush
      <4>1. p \in BoSubmit(kgem, gpu, b) BY <2>1, <3>1
      <4> QED BY <1>1, <2>2, <4>1, BoSubmitTracked, BoSubmitAgrees
    <3>2. CASE ~kgem.bo[b].needs_flush
      <4>1. p = <<kgem, gpu>> BY <2>1, <3>2
      <4>2. ~kgem.bo[b].write BY <1>1, <3>2, TrackedBo DEF Fine, Booked
      <4> QED BY <1>1, <2>2, <4>1, <4>2
    <3> QED BY <3>1, <3>2
  <2>4. ASSUME NEW g \in WaitWritten(p[2], b), Step(ReadSynced(p[1], g, b), g) PROVE Agreed'
    <3>1. g \in Gpu /\ Agree(p[1], g) /\ ~Written(g, b) BY <2>3, WaitAgrees
    <3>2. Agree(ReadSynced(p[1], g, b), g) BY <2>3, <3>1, ReadSyncedAgrees
    <3> QED BY <1>s, <2>4, <3>1, <3>2
  <2> QED BY <1>s, <2>1, <2>3, <2>4
<1>5. CASE KgemScanoutFlush(b)
  <2>1. PICK p \in BoSubmit(kgem, gpu, b) :
          Step(Update(p[1], [p[1].bo EXCEPT ![b] = Flushed(p[2], b, p[1].bo[b])], p[1].flushing), p[2])
    BY <1>5, ZenonT(60) DEF KgemScanoutFlush, Flushed
  <2>2. Client(kgem.bo[b]) BY <1>5, ZenonT(60) DEF KgemScanoutFlush, Held, Referenced, Client, Owned
  <2>3. "scanout" \in Kinds
    BY <1>1, <1>5, TrackedBo, ZenonT(60) DEF KgemScanoutFlush, Fine, Attributes
  <2>4. Tracked(p[1]) /\ Client(p[1].bo[b]) /\ p[2] \in Gpu /\ Agree(p[1], p[2])
    BY <1>1, <2>2, BoSubmitTracked, BoSubmitAgrees
  <2>5. Agree(Update(p[1], [p[1].bo EXCEPT ![b] = Flushed(p[2], b, p[1].bo[b])], p[1].flushing), p[2])
    BY <2>3, <2>4, ScanoutFlushAgrees
  <2> QED BY <1>s, <2>1, <2>4, <2>5, ZenonT(60)
<1>6. CASE KgemBoMarkBusy(b) BY <1>6, MarkBusyAgrees
<1> QED BY <1>2, <1>3, <1>4, <1>5, <1>6

\* The timers, the block handler, the GPU and the other processes.
LEMMA BackgroundAgrees ==
  ASSUME IInv, Books, Agreed, Books', IInv',
         \/ KgemRetire \/ KgemIsIdle \/ KgemExpire \/ KgemCleanupCache
         \/ \E r \in Req : GpuCompletes(r)
         \/ \E b \in Bo : OthersUse(b) \/ OthersFinish(b)
  PROVE  Agreed'
<1>1. Tracked(kgem) /\ gpu \in Gpu /\ Agree(kgem, gpu) /\ Handles(kgem, gpu)
  BY DEF IInv, Books, Agreed
<1>s. ASSUME NEW k, NEW g \in Gpu, Agree(k, g), Step(k, g) PROVE Agreed'
  BY <1>s, StepAgrees DEF Step, Books
<1>2. CASE KgemRetire
  <2>1. PICK F \in FlushScans(kgem, gpu) : Step(kgem_retire(kgem, gpu, F), gpu)
    BY <1>2 DEF KgemRetire
  <2>2. Alone(kgem, F) BY <1>1, <2>1, ScansTracked
  <2>3. \A b \in Bo \cap F : ~Busy(gpu, b) BY <2>1, ScansIdle
  <2>4. Agree(kgem_retire(kgem, gpu, F), gpu) BY <1>1, <2>2, <2>3, RetireAgrees
  <2> QED BY <1>1, <1>s, <2>1, <2>4
<1>3. CASE KgemIsIdle
  <2>1. kgem.ring \in Ring BY <1>1 DEF Tracked, Sound, Kgem
  <2> QED BY <1>1, <1>3, <1>s, <2>1, KgemRingIsIdleAgrees DEF KgemIsIdle
<1>4. CASE KgemExpire
  <2>1. PICK p \in Expired(kgem, gpu) : Step(p[1], gpu) BY <1>4 DEF KgemExpire
  <2> QED BY <1>1, <1>s, <2>1, ExpiredAgrees
<1>5. CASE KgemCleanupCache
  <2> DEFINE done == Completed(gpu, gpu.inflight)
  <2>1. PICK k \in CleanedUp(kgem, done) : Step(k, done) BY <1>5 DEF KgemCleanupCache
  <2>2. done \in Gpu /\ done.inflight = {} BY <1>1, CompletedType, CompletedFields
  <2>3. Fewer(gpu, done) BY <1>1, AllCompleted, CompletedFewer
  <2> HIDE DEF done
  <2>4. Agree(kgem, done) BY <1>1, <2>3, FewerAgrees
  <2> QED BY <1>1, <1>s, <2>1, <2>2, <2>4, CleanedUpAgrees
<1>6. ASSUME kgem' = kgem, Fewer(gpu, gpu') PROVE Agreed'
  <2>1. Agree(kgem, gpu') BY <1>1, <1>6, FewerAgrees
  <2>2. Handles(kgem, gpu') BY <1>1, <1>6 DEF Handles, Fewer, Unused
  <2> QED BY <1>6, <2>1, <2>2 DEF Agreed
<1>7. ASSUME NEW r \in Req, GpuCompletes(r) PROVE Agreed'
  <2>1. Fewer(gpu, Completed(gpu, {r})) BY <1>1, <1>7, CompletedFewer DEF GpuCompletes
  <2> QED BY <1>6, <1>7, <2>1 DEF GpuCompletes
<1>8. ASSUME NEW b \in Bo, OthersFinish(b) PROVE Agreed'
  <2>1. gpu' = [gpu EXCEPT !.others = gpu.others \ {b}] /\ kgem' = kgem
    BY <1>8 DEF OthersFinish
  <2>2. Fewer(gpu, gpu') BY <1>1, <2>1 DEF Fewer, Gpu
  <2> QED BY <1>6, <2>1, <2>2
<1>9. ASSUME NEW b \in Bo, OthersUse(b) PROVE Agreed'
  <2>1. gpu' = [gpu EXCEPT !.others = gpu.others \cup {b}] /\ kgem' = kgem /\ kgem.bo[b].shared
    BY <1>9 DEF OthersUse
  <2>2. /\ gpu'.inflight = gpu.inflight /\ gpu'.uses = gpu.uses /\ gpu'.writes = gpu.writes
        /\ gpu'.ring = gpu.ring /\ gpu'.others = gpu.others \cup {b}
    BY <1>1, <2>1 DEF Gpu
  <2>3. Flying(gpu', kgem.next) /\ InOrder(kgem, gpu')
    BY <1>1, <2>2 DEF Agree, Flying, InOrder
  <2>4. ASSUME NEW c \in Bo PROVE Seen(kgem.bo[c], c, gpu', kgem.next)
    <3>1. Seen(kgem.bo[c], c, gpu, kgem.next) BY <1>1 DEF Agree, AllSeen
    <3> QED BY <2>1, <2>2, <3>1 DEF Seen, Watches, Latest, Unused
  <2>5. Handles(kgem, gpu') BY <1>1, <2>2 DEF Handles, Unused
  <2> QED BY <2>1, <2>3, <2>4, <2>5 DEF Agreed, Agree, AllSeen
<1> QED BY <1>2, <1>3, <1>4, <1>5, <1>7, <1>8, <1>9

\* Agreed is inductive, together with Sound and Tracked.
THEOREM Agreement == Spec => [](IInv /\ Books /\ Agreed)
<1>1. Init => Agreed BY InitAgrees
<1>2. IInv /\ Books /\ Agreed /\ IInv' /\ Books' /\ [Next]_vars => Agreed'
  <2> SUFFICES ASSUME IInv, Books, Agreed, IInv', Books', [Next]_vars PROVE Agreed' OBVIOUS
  <2>1. CASE Next
    BY <2>1, CreateAgrees, ReferencesAgree, BatchAgrees, SyncAgrees, BackgroundAgrees DEF Next
  <2>2. CASE UNCHANGED vars BY <2>2 DEF vars, Agreed
  <2> QED BY <2>1, <2>2
<1> QED BY <1>1, <1>2, Bookkeeping, PTL DEF Spec

\* What kgem knows of one bo.
LEMMA AgreedBo ==
  ASSUME Books, Agreed, NEW b \in Bo
  PROVE  /\ kgem.next \in Nat \ {0} /\ Flying(gpu, kgem.next)
         /\ NoRq \notin gpu.inflight /\ NoRq \notin {Foreign, kgem.next}
         /\ Fine(kgem.bo[b], b, Outstanding(kgem), kgem.next, kgem.flushing)
         /\ kgem.bo[b].list # "freed" => Watches(kgem.bo[b], b, gpu, kgem.next)
<1>1. Tracked(kgem) /\ Agree(kgem, gpu) BY DEF Books, Agreed
<1>2. kgem.next \in Nat \ {0} /\ Flying(gpu, kgem.next) BY <1>1, AgreeBo
<1>3. NoRq \notin gpu.inflight /\ NoRq \notin {Foreign, kgem.next}
  BY <1>2, NotFlying DEF NoRq, Foreign
<1> QED BY <1>1, <1>2, <1>3, AgreeBo, TrackedBo

\* RetiredComplete: a request that kgem forgets is complete, unless the device
\* is wedged, whatever clients do and in whatever order reads of a bo complete.
THEOREM RetiredAlwaysComplete == Spec => RetiredComplete
<1>1. Agreed' =>
        (kgem'.wedged \/ \A r \in Outstanding(kgem) \ Outstanding(kgem') : r \notin gpu'.inflight)
  BY DEF Agreed, Agree, InOrder, Outstanding
<1> QED BY <1>1, Agreement, PTL DEF RetiredComplete

\* DomainCoherent, as long as no framebuffer can be drawn on unnoticed: a bo that
\* kgem takes to be in the domain of the CPU is idle.
THEOREM DomainsCoherent ==
  ASSUME Calm PROVE Spec => []DomainCoherent
<1>1. Books /\ Agreed => DomainCoherent
  <2> SUFFICES ASSUME Books, Agreed, NEW b \in Bo,
                      kgem.bo[b].domain \in {"cpu", "gtt"}, ~kgem.bo[b].shared
               PROVE  ~Busy(gpu, b)
    BY DEF DomainCoherent
  <2>1. kgem.bo[b].list # "freed"
    <3>1. kgem.bo[b].list = "freed" => kgem.bo[b] = Freed BY AgreedBo DEF Fine, Listed
    <3>2. Freed.domain = "none" BY DEF Freed
    <3> QED BY <3>1, <3>2
  <2>2. Unused(gpu, b) /\ b \notin gpu.others BY <2>1, AgreedBo DEF Watches
  <2> QED BY <2>2 DEF Busy, Unused
<1> QED BY <1>1, Agreement, PTL

\* BusyTracked, unless batches are discarded, reads overtake each other or the
\* kernel refuses a batch: a bo without a request is idle.
THEOREM BusyAlwaysTracked ==
  ASSUME Ordered PROVE Spec => []BusyTracked
<1>1. Books /\ Agreed => BusyTracked
  <2> SUFFICES ASSUME Books, Agreed, NEW b \in Bo, kgem.bo[b].list # "freed",
                      ~kgem.bo[b].shared, Busy(gpu, b)
               PROVE  kgem.bo[b].rq # NoRq
    BY DEF BusyTracked
  <2>1. b \notin gpu.others BY AgreedBo DEF Watches
  <2>2. PICK r \in gpu.inflight : b \in gpu.uses[r] BY <2>1 DEF Busy
  <2>3. Latest(kgem.bo[b], gpu, kgem.next, r) BY <2>2, AgreedBo DEF Watches
  <2> QED BY <2>3, AgreedBo DEF Latest
<1> QED BY <1>1, Agreement, PTL

\* InactiveIdle, under the same condition: what the inactive cache holds can be
\* written at once.
THEOREM InactiveAlwaysIdle ==
  ASSUME Ordered PROVE Spec => []InactiveIdle
<1>1. Books /\ CachedPrivate /\ BusyTracked => InactiveIdle
  <2> SUFFICES ASSUME Books, CachedPrivate, BusyTracked, NEW b \in Bo,
                      kgem.bo[b].list = "inactive"
               PROVE  ~Busy(gpu, b)
    BY DEF InactiveIdle, InCache
  <2>1. ~kgem.bo[b].shared BY DEF CachedPrivate, Caches
  <2>2. kgem.bo[b].rq = NoRq BY TrackedBo DEF Books, Fine, Listed
  <2> QED BY <2>1, <2>2 DEF BusyTracked
<1>2. Private BY DEF Ordered
<1> QED BY <1>1, <1>2, Bookkeeping, CachesPrivate, BusyAlwaysTracked, PTL

\* CachesTell, also where batches are discarded and reads overtake each other,
\* without framebuffers: the GPU writes nothing that the inactive cache holds.
THEOREM CachesAlwaysTell ==
  ASSUME Watched PROVE Spec => []CachesTell
<1>1. Books /\ Agreed /\ CachedPrivate => InactiveUnwritten
  <2> SUFFICES ASSUME Books, Agreed, CachedPrivate, NEW b \in Bo,
                      kgem.bo[b].list = "inactive", Written(gpu, b)
               PROVE  FALSE
    BY DEF InactiveUnwritten, InCache
  <2>1. ~kgem.bo[b].shared BY DEF CachedPrivate, Caches
  <2>2. kgem.bo[b].rq = NoRq BY AgreedBo DEF Fine, Listed
  <2>3. b \notin gpu.others BY <2>1, AgreedBo DEF Watches
  <2>4. PICK r \in gpu.inflight : b \in gpu.writes[r] BY <2>3 DEF Written
  <2>5. Latest(kgem.bo[b], gpu, kgem.next, r) BY <2>4, AgreedBo DEF Watches
  <2> QED BY <2>2, <2>5, AgreedBo DEF Latest
<1>2. Private BY DEF Watched
<1> QED BY <1>1, <1>2, Agreement, CachesPrivate, ActiveAlwaysBusy, PTL DEF CachesTell
=============================================================================
