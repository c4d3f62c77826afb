---------------------------- MODULE SnaDri2Proofs ----------------------------
(***************************************************************************)
(* The swap chains of DRI2, for any windows, clients and numbers of        *)
(* events: no event is freed that the kernel holds a pointer to, and every *)
(* completion the server waits for is owed by one event.                   *)
(***************************************************************************)
EXTENDS SnaDri2, SnaInduction

-----------------------------------------------------------------------------
(* What the recursive functions of SnaDri2 compute.                          *)

\* The sums of a function of the events, one event after the other.
LEMMA TotalSums ==
  ASSUME NEW g \in [Info -> Int]
  PROVE  \E s \in [0..Events -> Int] :
           /\ s[0] = 0 /\ \A n \in 1..Events : s[n] = s[n - 1] + g[n]
           /\ Total(g) = s[Events]
<1> DEFINE h == [x \in Int \X (1..Events) |-> x[1] + g[x[2]]]
<1>1. Events \in Nat BY BoundsAssumption
<1>2. \A n \in 1..Events : g[n] \in Int BY DEF Info
<1>3. Steps(h, Int, Events)
  <2>1. ASSUME NEW x \in Int \X (1..Events) PROVE x[1] + g[x[2]] \in Int BY <1>2
  <2> QED BY <2>1 DEF Steps
<1>4. \A v \in Int, n \in 1..Events : h[<<v, n>>] = v + g[n] OBVIOUS
<1> HIDE DEF h
<1>5. PICK s : Iterates(s, 0, h, Int, Events)
  <2>1. 0 \in Int OBVIOUS
  <2> QED BY <1>1, <1>3, <2>1, Recursion
<1>6. /\ s \in [0..Events -> Int] /\ s[0] = 0
      /\ \A n \in 1..Events : s[n] = s[n - 1] + g[n]
  <2>1. s \in [0..Events -> Int] /\ s[0] = 0 BY <1>5 DEF Iterates
  <2>2. ASSUME NEW n \in 1..Events PROVE s[n] = s[n - 1] + g[n]
    <3>1. s[n - 1] \in Int BY <1>1, <2>1
    <3> QED BY <1>4, <1>5, <3>1 DEF Iterates
  <2> QED BY <2>1, <2>2
<1> DEFINE Def(q) == [n \in 0..Events |-> IF n = 0 THEN 0 ELSE q[n - 1] + g[n]]
<1>7. s = Def(s)
  <2>1. ASSUME NEW n \in 0..Events PROVE s[n] = IF n = 0 THEN 0 ELSE s[n - 1] + g[n]
    BY <1>1, <1>6
  <2> QED BY <1>6, <2>1
<1>8. ASSUME NEW q, q = Def(q) PROVE q[Events] = s[Events]
  <2> DEFINE M == {n \in Nat : n <= Events => q[n] = s[n]}
  <2>1. \A n \in 0..Events : q[n] = IF n = 0 THEN 0 ELSE q[n - 1] + g[n] BY <1>8
  <2> HIDE DEF Def
  <2>2. 0 \in M BY <1>1, <1>6, <2>1
  <2>3. ASSUME NEW n \in M PROVE n + 1 \in M
    <3>1. SUFFICES ASSUME n + 1 <= Events PROVE q[n + 1] = s[n + 1] BY <2>3
    <3>2. n \in Nat /\ q[n] = s[n] BY <1>1, <2>3, <3>1
    <3>3. n + 1 \in 1..Events /\ n + 1 \in 0..Events /\ n + 1 # 0 /\ n + 1 - 1 = n
      BY <1>1, <3>1, <3>2
    <3>4. q[n + 1] = q[n] + g[n + 1] BY <2>1, <3>3
    <3>5. s[n + 1] = s[n] + g[n + 1] BY <1>6, <3>3
    <3> QED BY <3>2, <3>4, <3>5
  <2>4. Events \in M BY <1>1, <2>2, <2>3, SetInduction
  <2> QED BY <1>1, <2>4
<1>9. Total(g) = s[Events]
  <2> DEFINE q == CHOOSE q : q = Def(q)
  <2>1. q = Def(q) BY <1>7
  <2>2. Total(g) = q[Events] BY DEF Total
  <2> HIDE DEF q
  <2> QED BY <1>8, <2>1, <2>2
<1> QED BY <1>6, <1>9

\* One summand changes.
LEMMA TotalChanges ==
  ASSUME NEW f \in [Info -> Int], NEW g \in [Info -> Int], NEW i \in Info,
         \A j \in Info \ {i} : f[j] = g[j]
  PROVE  Total(f) \in Int /\ Total(g) = Total(f) + (g[i] - f[i])
<1>1. PICK s \in [0..Events -> Int] :
           /\ s[0] = 0 /\ \A n \in 1..Events : s[n] = s[n - 1] + f[n]
           /\ Total(f) = s[Events]
  BY TotalSums
<1>2. PICK t \in [0..Events -> Int] :
           /\ t[0] = 0 /\ \A n \in 1..Events : t[n] = t[n - 1] + g[n]
           /\ Total(g) = t[Events]
  BY TotalSums
<1>3. Events \in Nat BY BoundsAssumption
<1> DEFINE d == g[i] - f[i]
           Differ(n) == t[n] = IF n < i THEN s[n] ELSE s[n] + d
           M == {n \in Nat : n <= Events => Differ(n)}
<1>4. d \in Int /\ i \in 1..Events /\ g[i] = f[i] + d BY DEF Info
<1> HIDE DEF d
<1>5. 0 \in M BY <1>1, <1>2, <1>4
<1>6. ASSUME NEW n \in M PROVE n + 1 \in M
  <2>1. SUFFICES ASSUME n + 1 <= Events PROVE Differ(n + 1) BY <1>6
  <2>2. n \in Nat /\ Differ(n) BY <1>3, <1>6, <2>1
  <2>3. n + 1 \in 1..Events /\ n \in 0..Events /\ n + 1 - 1 = n BY <1>3, <2>1, <2>2
  <2>4. s[n + 1] = s[n] + f[n + 1] /\ t[n + 1] = t[n] + g[n + 1] BY <1>1, <1>2, <2>3
  <2>5. s[n] \in Int /\ f[n + 1] \in Int BY <1>1, <2>3 DEF Info
  <2>6. CASE n + 1 = i BY <1>4, <2>2, <2>4, <2>5, <2>6
  <2>7. CASE n + 1 # i
    <3>1. g[n + 1] = f[n + 1] BY <2>3, <2>7 DEF Info
    <3> QED BY <1>4, <2>2, <2>4, <2>5, <2>7, <3>1
  <2> QED BY <2>6, <2>7
<1>7. Events \in M BY <1>3, <1>5, <1>6, SetInduction
<1>8. s[Events] \in Int BY <1>1, <1>3
<1>9. Differ(Events) BY <1>3, <1>7
<1> QED BY <1>1, <1>2, <1>3, <1>4, <1>8, <1>9 DEF d

\* Nothing to sum.
LEMMA TotalZero ==
  ASSUME NEW f \in [Info -> Int], \A i \in Info : f[i] = 0 PROVE Total(f) = 0
<1>1. PICK s \in [0..Events -> Int] :
           /\ s[0] = 0 /\ \A n \in 1..Events : s[n] = s[n - 1] + f[n]
           /\ Total(f) = s[Events]
  BY TotalSums
<1>2. Events \in Nat BY BoundsAssumption
<1> DEFINE M == {n \in Nat : n <= Events => s[n] = 0}
<1>3. 0 \in M BY <1>1
<1>4. ASSUME NEW n \in M PROVE n + 1 \in M
  <2>1. SUFFICES ASSUME n + 1 <= Events PROVE s[n + 1] = 0 BY <1>4
  <2>2. n \in Nat /\ s[n] = 0 BY <1>2, <1>4, <2>1
  <2>3. n + 1 \in 1..Events /\ n + 1 - 1 = n BY <1>2, <2>1, <2>2
  <2> QED BY <1>1, <2>2, <2>3 DEF Info
<1>5. Events \in M BY <1>2, <1>3, <1>4, SetInduction
<1> QED BY <1>1, <1>2, <1>5

\* A sum of what is not negative is at least each of its summands.
LEMMA TotalLeast ==
  ASSUME NEW f \in [Info -> Int], \A i \in Info : f[i] >= 0, NEW i \in Info
  PROVE  Total(f) >= f[i]
<1>1. PICK s \in [0..Events -> Int] :
           /\ s[0] = 0 /\ \A n \in 1..Events : s[n] = s[n - 1] + f[n]
           /\ Total(f) = s[Events]
  BY TotalSums
<1>2. Events \in Nat /\ i \in 1..Events /\ f[i] \in Int BY BoundsAssumption DEF Info
<1> DEFINE Least(n) == s[n] >= 0 /\ (n >= i => s[n] >= f[i])
           M == {n \in Nat : n <= Events => Least(n)}
<1>3. 0 \in M BY <1>1, <1>2
<1>4. ASSUME NEW n \in M PROVE n + 1 \in M
  <2>1. SUFFICES ASSUME n + 1 <= Events PROVE Least(n + 1) BY <1>4
  <2>2. n \in Nat /\ Least(n) BY <1>2, <1>4, <2>1
  <2>3. n + 1 \in 1..Events /\ n \in 0..Events /\ n + 1 - 1 = n BY <1>2, <2>1, <2>2
  <2>4. s[n + 1] = s[n] + f[n + 1] /\ s[n] \in Int /\ f[n + 1] \in Int /\ f[n + 1] >= 0
    BY <1>1, <2>3 DEF Info
  <2>5. CASE n + 1 = i BY <1>2, <2>2, <2>4, <2>5, SMTT(30)
  <2>6. CASE n + 1 # i BY <1>2, <2>2, <2>4, <2>6, SMTT(30)
  <2> QED BY <2>5, <2>6
<1>5. Events \in M BY <1>2, <1>3, <1>4, SetInduction
<1>6. Least(Events) BY <1>2, <1>5
<1> QED BY <1>1, <1>2, <1>6

-----------------------------------------------------------------------------
(* What holds of the state of the driver between the steps of a handler.     *)

\* The code presumes that a window is drawn to by one client: its chain is
\* asserted to have one (sna_dri2.c:2790).
OneClient ==
  \A c, d \in Clients, w \in Windows : <<c, w>> \in Draws /\ <<d, w>> \in Draws => c = d

EventMap == UNION {[D -> SnaDri2Event] : D \in SUBSET Info}
DriverState ==
  [event : EventMap, chain : [Windows -> Seq(Info)], flip_pending : 0..Events,
   flip : 0..Present, vblanks : SUBSET Info,
   swaps : [Windows -> Int], limit : [Windows -> 1..3]]

\* An event is in a chain.
In(q, i) == \E k \in 1..Len(q) : q[k] = i
\* A chain links events of its window, each once.
Chained(s) ==
  \A w \in Windows : \A k \in 1..Len(s.chain[w]) :
    s.chain[w][k] \in DOMAIN s.event /\ s.event[s.chain[w][k]].draw = w
Distinct(s) ==
  \A w \in Windows : \A j, k \in 1..Len(s.chain[w]) : s.chain[w][j] = s.chain[w][k] => j = k
\* An event of a window, but for those of X, is in its chain.
Linked(s, X) ==
  \A i \in DOMAIN s.event \ X :
    s.event[i].draw # None => In(s.chain[s.event[i].draw], i)
\* Its client draws to the window, and no event names a successor.
Owned(s) ==
  \A i \in DOMAIN s.event :
    /\ s.event[i].draw # None => <<s.event[i].client, s.event[i].draw>> \in Draws
    /\ s.event[i].after = 0
\* The kernel has the events that are queued, each once.
Known(s) ==
  /\ s.vblanks \cup ({s.flip} \ {0, Present}) = {i \in DOMAIN s.event : s.event[i].queued}
  /\ s.flip \notin s.vblanks
\* What is pending is the flip itself, or an event the kernel does not have; it is
\* no blit that chain_swap could queue.
Waiting(s) ==
  s.flip_pending # 0 =>
    /\ s.flip_pending \in DOMAIN s.event
    /\ s.flip_pending = s.flip \/ ~s.event[s.flip_pending].queued
    /\ s.event[s.flip_pending].type # "SWAP_COMPLETE"
\* It waits for a flip of DRI2.
Ahead(s) == s.flip_pending # 0 => s.flip \in Info

Sane(s, X) ==
  /\ s \in DriverState
  /\ Chained(s) /\ Distinct(s) /\ Linked(s, X) /\ Owned(s) /\ Known(s) /\ Waiting(s)

-----------------------------------------------------------------------------
(* The fields of events and of states.                                       *)

\* The events are a function of some of the numbers.
LEMMA EventMaps ==
  ASSUME NEW e
  PROVE  e \in EventMap <=> /\ e = [i \in DOMAIN e |-> e[i]] /\ DOMAIN e \subseteq Info
                            /\ \A i \in DOMAIN e : e[i] \in SnaDri2Event
<1>1. ASSUME e \in EventMap
      PROVE  /\ e = [i \in DOMAIN e |-> e[i]] /\ DOMAIN e \subseteq Info
             /\ \A i \in DOMAIN e : e[i] \in SnaDri2Event
  <2>1. PICK D \in SUBSET Info : e \in [D -> SnaDri2Event] BY <1>1 DEF EventMap
  <2> QED BY <2>1
<1>2. ASSUME e = [i \in DOMAIN e |-> e[i]], DOMAIN e \subseteq Info,
             \A i \in DOMAIN e : e[i] \in SnaDri2Event
      PROVE  e \in EventMap
  <2> DEFINE D == DOMAIN e
  <2>1. e \in [D -> SnaDri2Event] BY <1>2
  <2>2. D \in SUBSET Info BY <1>2
  <2> HIDE DEF D
  <2> QED BY <2>1, <2>2 DEF EventMap
<1> QED BY <1>1, <1>2

\* An event is replaced, or added.
LEMMA EventSet ==
  ASSUME NEW e \in EventMap, NEW i \in DOMAIN e, NEW o \in SnaDri2Event
  PROVE  /\ [e EXCEPT ![i] = o] \in EventMap /\ DOMAIN [e EXCEPT ![i] = o] = DOMAIN e
         /\ [e EXCEPT ![i] = o][i] = o
         /\ \A j \in DOMAIN e \ {i} : [e EXCEPT ![i] = o][j] = e[j]
<1> DEFINE t == [e EXCEPT ![i] = o]
<1>1. /\ DOMAIN e \subseteq Info /\ \A j \in DOMAIN e : e[j] \in SnaDri2Event
  BY EventMaps
<1>2. t = [j \in DOMAIN e |-> IF j = i THEN o ELSE e[j]] BY EventMaps
<1>3. DOMAIN t = DOMAIN e /\ t[i] = o /\ \A j \in DOMAIN e \ {i} : t[j] = e[j] BY <1>2
<1>4. t = [j \in DOMAIN t |-> t[j]] BY <1>2
<1> HIDE DEF t
<1>5. \A j \in DOMAIN t : t[j] \in SnaDri2Event BY <1>1, <1>3
<1>6. t \in EventMap BY <1>1, <1>3, <1>4, <1>5, EventMaps
<1> QED BY <1>3, <1>6 DEF t

\* The fields that an event of the driver leaves alone.
Same(s, t) == t.chain = s.chain /\ t.flip_pending = s.flip_pending /\ t.flip = s.flip
              /\ t.vblanks = s.vblanks
\* The other events are as they were.
Others(s, t, i) ==
  /\ DOMAIN t.event = DOMAIN s.event
  /\ \A j \in DOMAIN s.event \ {i} : t.event[j] = s.event[j]

\* The state with another event in the place of i.
With(s, i, o) == [s EXCEPT !.event[i] = o]

\* What With changes.
LEMMA WithFacts ==
  ASSUME NEW s \in DriverState, NEW i \in DOMAIN s.event, NEW o \in SnaDri2Event
  PROVE  /\ With(s, i, o) \in DriverState
         /\ With(s, i, o).event[i] = o /\ Others(s, With(s, i, o), i)
         /\ Same(s, With(s, i, o))
         /\ With(s, i, o).swaps = s.swaps /\ With(s, i, o).limit = s.limit
<1> DEFINE e == [s.event EXCEPT ![i] = o]
           t == [s EXCEPT !.event = e]
<1>1. s.event \in EventMap BY DEF DriverState
<1>2. /\ e \in EventMap /\ DOMAIN e = DOMAIN s.event /\ e[i] = o
      /\ \A j \in DOMAIN s.event \ {i} : e[j] = s.event[j]
  BY <1>1, EventSet
<1>3. With(s, i, o) = t BY DEF With
<1> HIDE DEF e
<1>4. t \in DriverState BY <1>2 DEF DriverState
<1>5. t.event = e /\ t.chain = s.chain /\ t.flip_pending = s.flip_pending /\ t.flip = s.flip
      /\ t.vblanks = s.vblanks /\ t.swaps = s.swaps /\ t.limit = s.limit
  BY DEF DriverState
<1> HIDE DEF t
<1> QED BY <1>2, <1>3, <1>4, <1>5 DEF Same, Others

\* An event of the driver, and the fields of the state.
LEMMA EventType ==
  ASSUME NEW s \in DriverState, NEW i \in DOMAIN s.event
  PROVE  i \in Info /\ i \in Nat \ {0} /\ i # Present /\ s.event[i] \in SnaDri2Event
<1>1. s.event \in EventMap BY DEF DriverState
<1>2. i \in Info /\ s.event[i] \in SnaDri2Event BY <1>1, EventMaps
<1> QED BY <1>2, BoundsAssumption DEF Info, Present

\* The chains and the counts.
LEMMA StateTypes ==
  ASSUME NEW s \in DriverState
  PROVE  /\ DOMAIN s.event \subseteq Info
         /\ \A w \in Windows : /\ s.chain[w] \in Seq(Info) /\ Len(s.chain[w]) \in Nat
                               /\ s.swaps[w] \in Int /\ s.limit[w] \in 1..3
         /\ s.chain \in [Windows -> Seq(Info)]
         /\ s.flip_pending \in 0..Events /\ s.flip \in 0..Present /\ s.vblanks \subseteq Info
         /\ s.swaps \in [Windows -> Int] /\ s.limit \in [Windows -> 1..3]
<1>1. s.event \in EventMap BY DEF DriverState
<1>2. DOMAIN s.event \subseteq Info BY <1>1, EventMaps
<1> QED BY <1>2 DEF DriverState

-----------------------------------------------------------------------------
(* The steps that leave the links and the kernel alone.                      *)

\* The type, the flags and the counts may change; nothing that is pending
\* becomes a blit.
Soft(s, t) ==
  /\ t \in DriverState /\ Same(s, t) /\ DOMAIN t.event = DOMAIN s.event
  /\ \A j \in DOMAIN s.event :
       /\ t.event[j].draw = s.event[j].draw /\ t.event[j].client = s.event[j].client
       /\ t.event[j].after = s.event[j].after /\ t.event[j].queued = s.event[j].queued
       /\ j = s.flip_pending /\ t.event[j].type = "SWAP_COMPLETE"
            => s.event[j].type = "SWAP_COMPLETE"

\* Nothing changes.
LEMMA SoftSelf == ASSUME NEW s \in DriverState PROVE Soft(s, s)
BY DEF Soft, Same

\* One after the other.
LEMMA SoftTwice == ASSUME NEW s, NEW t, NEW u, Soft(s, t), Soft(t, u) PROVE Soft(s, u)
<1>1. u \in DriverState /\ Same(s, u) /\ DOMAIN u.event = DOMAIN s.event BY DEF Soft, Same
<1>2. s.flip_pending = t.flip_pending /\ DOMAIN t.event = DOMAIN s.event BY DEF Soft, Same
<1>3. ASSUME NEW j \in DOMAIN s.event
      PROVE  /\ u.event[j].draw = s.event[j].draw /\ u.event[j].client = s.event[j].client
             /\ u.event[j].after = s.event[j].after /\ u.event[j].queued = s.event[j].queued
             /\ j = s.flip_pending /\ u.event[j].type = "SWAP_COMPLETE"
                  => s.event[j].type = "SWAP_COMPLETE"
  BY <1>2 DEF Soft
<1> QED BY <1>1, <1>3 DEF Soft

\* They keep what holds.
LEMMA SoftSane == ASSUME NEW s, NEW t, NEW X, Sane(s, X), Soft(s, t) PROVE Sane(t, X)
<1>1. /\ t \in DriverState /\ DOMAIN t.event = DOMAIN s.event
      /\ t.chain = s.chain /\ t.flip_pending = s.flip_pending /\ t.flip = s.flip
      /\ t.vblanks = s.vblanks
      /\ \A j \in DOMAIN s.event :
           /\ t.event[j].draw = s.event[j].draw /\ t.event[j].client = s.event[j].client
           /\ t.event[j].after = s.event[j].after /\ t.event[j].queued = s.event[j].queued
           /\ j = s.flip_pending /\ t.event[j].type = "SWAP_COMPLETE"
                => s.event[j].type = "SWAP_COMPLETE"
  BY DEF Soft, Same
<1>2. Chained(t) BY <1>1 DEF Sane, Chained
<1>3. Distinct(t) BY <1>1 DEF Sane, Distinct
<1>4. Linked(t, X) BY <1>1 DEF Sane, Linked
<1>5. Owned(t) BY <1>1 DEF Sane, Owned
<1>6. Known(t)
  <2>1. {i \in DOMAIN t.event : t.event[i].queued} = {i \in DOMAIN s.event : s.event[i].queued}
    BY <1>1
  <2> QED BY <1>1, <2>1 DEF Sane, Known
<1>7. Waiting(t) BY <1>1 DEF Sane, Waiting
<1> QED BY <1>1, <1>2, <1>3, <1>4, <1>5, <1>6, <1>7 DEF Sane

\* One event changes.
LEMMA SoftWith ==
  ASSUME NEW s \in DriverState, NEW i \in DOMAIN s.event, NEW o \in SnaDri2Event,
         o.draw = s.event[i].draw, o.client = s.event[i].client,
         o.after = s.event[i].after, o.queued = s.event[i].queued,
         i = s.flip_pending /\ o.type = "SWAP_COMPLETE" => s.event[i].type = "SWAP_COMPLETE"
  PROVE  Soft(s, With(s, i, o))
<1> DEFINE t == With(s, i, o)
<1>1. t \in DriverState /\ t.event[i] = o /\ Others(s, t, i) /\ Same(s, t) BY WithFacts
<1> HIDE DEF t
<1>2. ASSUME NEW j \in DOMAIN s.event
      PROVE  /\ t.event[j].draw = s.event[j].draw /\ t.event[j].client = s.event[j].client
             /\ t.event[j].after = s.event[j].after /\ t.event[j].queued = s.event[j].queued
             /\ j = s.flip_pending /\ t.event[j].type = "SWAP_COMPLETE"
                  => s.event[j].type = "SWAP_COMPLETE"
  <2>1. CASE j = i BY <1>1, <2>1
  <2>2. CASE j # i BY <1>1, <2>2 DEF Others
  <2> QED BY <2>1, <2>2
<1>3. DOMAIN t.event = DOMAIN s.event BY <1>1 DEF Others
<1>4. Soft(s, t) BY <1>1, <1>2, <1>3 DEF Soft
<1> QED BY <1>4 DEF t

\* The counts of the server.
LEMMA SoftCounts ==
  ASSUME NEW s \in DriverState, NEW n \in [Windows -> Int], NEW m \in [Windows -> 1..3]
  PROVE  /\ Soft(s, [s EXCEPT !.swaps = n]) /\ Soft(s, [s EXCEPT !.limit = m])
         /\ [s EXCEPT !.swaps = n].swaps = n /\ [s EXCEPT !.limit = m].limit = m
         /\ [s EXCEPT !.swaps = n].event = s.event /\ [s EXCEPT !.limit = m].event = s.event
         /\ [s EXCEPT !.swaps = n].limit = s.limit /\ [s EXCEPT !.limit = m].swaps = s.swaps
<1> DEFINE t == [s EXCEPT !.swaps = n]
           u == [s EXCEPT !.limit = m]
<1>1. t \in DriverState /\ u \in DriverState BY DEF DriverState
<1>2. t.swaps = n /\ t.event = s.event /\ t.limit = s.limit /\ Same(s, t) BY DEF DriverState, Same
<1>3. u.limit = m /\ u.event = s.event /\ u.swaps = s.swaps /\ Same(s, u) BY DEF DriverState, Same
<1> HIDE DEF t, u
<1>4. Soft(s, t) /\ Soft(s, u) BY <1>1, <1>2, <1>3 DEF Soft
<1> QED BY <1>2, <1>3, <1>4 DEF t, u

\* frame_swap_complete.
LEMMA ToldFacts ==
  ASSUME NEW s \in DriverState, NEW info
  PROVE  /\ Soft(s, Told(s, info)) /\ Told(s, info).event = s.event
         /\ Told(s, info).limit = s.limit
         /\ Told(s, info).swaps = IF info.client = None THEN s.swaps
                                  ELSE [s.swaps EXCEPT ![info.draw] = @ - 1]
<1>1. CASE info.client = None BY <1>1, SoftSelf DEF Told
<1>2. CASE info.client # None
  <2> DEFINE n == [s.swaps EXCEPT ![info.draw] = @ - 1]
  <2>1. n \in [Windows -> Int]
    <3>1. s.swaps \in [Windows -> Int] BY DEF DriverState
    <3>2. \A w \in Windows : s.swaps[w] \in Int /\ s.swaps[w] - 1 \in Int BY <3>1
    <3> QED BY <3>1, <3>2
  <2>2. Told(s, info) = [s EXCEPT !.swaps = n] BY <1>2 DEF Told
  <2> HIDE DEF n
  <2>3. s.limit \in [Windows -> 1..3] BY DEF DriverState
  <2>4. /\ Soft(s, [s EXCEPT !.swaps = n]) /\ [s EXCEPT !.swaps = n].swaps = n
        /\ [s EXCEPT !.swaps = n].event = s.event /\ [s EXCEPT !.swaps = n].limit = s.limit
    BY <2>1, <2>3, SoftCounts, ZenonT(60)
  <2> QED BY <1>2, <2>2, <2>4 DEF n
<1> QED BY <1>1, <1>2

\* The flags of an event.
LEMMA EventFlags ==
  ASSUME NEW o \in SnaDri2Event, NEW b \in BOOLEAN, NEW y \in Type
  PROVE  /\ [o EXCEPT !.signal = b] \in SnaDri2Event /\ [o EXCEPT !.pending = b] \in SnaDri2Event
         /\ [o EXCEPT !.queued = b] \in SnaDri2Event /\ [o EXCEPT !.type = y] \in SnaDri2Event
         /\ [o EXCEPT !.sync = b] \in SnaDri2Event
BY DEF SnaDri2Event

\* Two events with the same fields.
LEMMA EventEqual ==
  ASSUME NEW o \in SnaDri2Event, NEW p \in SnaDri2Event,
         o.draw = p.draw, o.client = p.client, o.type = p.type, o.queued = p.queued,
         o.signal = p.signal, o.sync = p.sync, o.pending = p.pending,
         o.flip_continue = p.flip_continue, o.after = p.after
  PROVE  o = p
BY DEF SnaDri2Event

\* An event that is sent and waited for again.
LEMMA Requeued ==
  ASSUME NEW o \in SnaDri2Event, o.queued
  PROVE  /\ [[o EXCEPT !.queued = FALSE] EXCEPT !.queued = TRUE] = o
         /\ [[[o EXCEPT !.queued = FALSE] EXCEPT !.type = "SWAP_COMPLETE"] EXCEPT !.queued = TRUE]
              = [o EXCEPT !.type = "SWAP_COMPLETE"]
         /\ [[o EXCEPT !.queued = FALSE, !.signal = TRUE, !.pending = FALSE] EXCEPT !.queued = TRUE]
              = [o EXCEPT !.signal = TRUE, !.pending = FALSE]
<1>1. o.queued = TRUE BY DEF SnaDri2Event
<1>2. [[o EXCEPT !.queued = FALSE] EXCEPT !.queued = TRUE] = o
  <2> DEFINE p == [[o EXCEPT !.queued = FALSE] EXCEPT !.queued = TRUE]
  <2>1. p \in SnaDri2Event BY DEF SnaDri2Event
  <2>2. /\ p.draw = o.draw /\ p.client = o.client /\ p.type = o.type /\ p.queued = o.queued
        /\ p.signal = o.signal /\ p.sync = o.sync /\ p.pending = o.pending
        /\ p.flip_continue = o.flip_continue /\ p.after = o.after
    BY <1>1 DEF SnaDri2Event
  <2> HIDE DEF p
  <2>3. p = o BY <2>1, <2>2, EventEqual
  <2> QED BY <2>3 DEF p
<1>3. [[[o EXCEPT !.queued = FALSE] EXCEPT !.type = "SWAP_COMPLETE"] EXCEPT !.queued = TRUE]
        = [o EXCEPT !.type = "SWAP_COMPLETE"]
  <2> DEFINE p == [[[o EXCEPT !.queued = FALSE] EXCEPT !.type = "SWAP_COMPLETE"] EXCEPT !.queued = TRUE]
             q == [o EXCEPT !.type = "SWAP_COMPLETE"]
  <2>1. p \in SnaDri2Event /\ q \in SnaDri2Event BY DEF SnaDri2Event, Type
  <2>2. /\ p.draw = q.draw /\ p.client = q.client /\ p.type = q.type /\ p.queued = q.queued
        /\ p.signal = q.signal /\ p.sync = q.sync /\ p.pending = q.pending
        /\ p.flip_continue = q.flip_continue /\ p.after = q.after
    BY <1>1 DEF SnaDri2Event
  <2> HIDE DEF p, q
  <2>3. p = q BY <2>1, <2>2, EventEqual
  <2> QED BY <2>3 DEF p, q
<1>4. [[o EXCEPT !.queued = FALSE, !.signal = TRUE, !.pending = FALSE] EXCEPT !.queued = TRUE]
        = [o EXCEPT !.signal = TRUE, !.pending = FALSE]
  <2> DEFINE p == [[o EXCEPT !.queued = FALSE, !.signal = TRUE, !.pending = FALSE] EXCEPT !.queued = TRUE]
             q == [o EXCEPT !.signal = TRUE, !.pending = FALSE]
  <2>1. p \in SnaDri2Event /\ q \in SnaDri2Event BY DEF SnaDri2Event, Type
  <2>2. /\ p.draw = q.draw /\ p.client = q.client /\ p.type = q.type /\ p.queued = q.queued
        /\ p.signal = q.signal /\ p.sync = q.sync /\ p.pending = q.pending
        /\ p.flip_continue = q.flip_continue /\ p.after = q.after
    BY <1>1 DEF SnaDri2Event
  <2> HIDE DEF p, q
  <2>3. p = q BY <2>1, <2>2, EventEqual
  <2> QED BY <2>3 DEF p, q
<1> QED BY <1>2, <1>3, <1>4

\* A swap that is complete.
LEMMA CompleteFacts ==
  ASSUME NEW s \in DriverState, NEW i \in DOMAIN s.event
  PROVE  /\ Soft(s, Complete(s, i)) /\ Others(s, Complete(s, i), i)
         /\ Complete(s, i).event[i] = [s.event[i] EXCEPT !.signal = FALSE]
         /\ Complete(s, i).limit = s.limit
         /\ Complete(s, i).swaps = IF s.event[i].client = None THEN s.swaps
                                   ELSE [s.swaps EXCEPT ![s.event[i].draw] = @ - 1]
<1> DEFINE o == [s.event[i] EXCEPT !.signal = FALSE]
           t == With(s, i, o)
<1>0. s.event[i] \in SnaDri2Event BY EventType
<1>1. o \in SnaDri2Event /\ o.draw = s.event[i].draw /\ o.client = s.event[i].client
      /\ o.after = s.event[i].after /\ o.queued = s.event[i].queued /\ o.type = s.event[i].type
  BY <1>0 DEF SnaDri2Event
<1>2. Complete(s, i) = Told(t, s.event[i]) BY DEF Complete, With
<1> HIDE DEF o
<1>3. Soft(s, t) BY <1>1, SoftWith
<1>4. /\ t \in DriverState /\ t.event[i] = o /\ Others(s, t, i)
      /\ t.swaps = s.swaps /\ t.limit = s.limit
  BY <1>1, WithFacts
<1> HIDE DEF t
<1> DEFINE c == s.event[i]
           u == Told(t, c)
<1> HIDE DEF c
<1>5. /\ Soft(t, u) /\ u.event = t.event /\ u.limit = t.limit
      /\ u.swaps = IF c.client = None THEN t.swaps ELSE [t.swaps EXCEPT ![c.draw] = @ - 1]
  BY <1>4, ToldFacts
<1> HIDE DEF u
<1>6. Soft(s, u) BY <1>3, <1>5, SoftTwice
<1>7. Others(s, u, i) /\ u.event[i] = o /\ u.limit = s.limit BY <1>4, <1>5 DEF Others
<1>8. Complete(s, i) = u BY <1>2 DEF u, c
<1> QED BY <1>4, <1>5, <1>6, <1>7, <1>8 DEF c, o

\* Or that was complete before.
LEMMA SignalFacts ==
  ASSUME NEW s \in DriverState, NEW i \in DOMAIN s.event
  PROVE  /\ Soft(s, CompleteSignal(s, i)) /\ Others(s, CompleteSignal(s, i), i)
         /\ CompleteSignal(s, i).event[i] = [s.event[i] EXCEPT !.signal = FALSE]
         /\ CompleteSignal(s, i).limit = s.limit
         /\ CompleteSignal(s, i).swaps =
              IF ~s.event[i].signal \/ s.event[i].client = None THEN s.swaps
              ELSE [s.swaps EXCEPT ![s.event[i].draw] = @ - 1]
<1>1. CASE s.event[i].signal
  <2>1. CompleteSignal(s, i) = Complete(s, i) BY <1>1 DEF CompleteSignal
  <2> QED BY <1>1, <2>1, CompleteFacts
<1>2. CASE ~s.event[i].signal
  <2>1. CompleteSignal(s, i) = s BY <1>2 DEF CompleteSignal
  <2>2. Soft(s, s) BY SoftSelf
  <2>3. s.event[i] \in SnaDri2Event BY EventType
  <2>4. s.event[i] = [s.event[i] EXCEPT !.signal = FALSE] BY <1>2, <2>3 DEF SnaDri2Event
  <2> QED BY <1>2, <2>1, <2>2, <2>4 DEF Others
<1> QED BY <1>1, <1>2

\* A blit of what is not pending.
LEMMA BlitFacts ==
  ASSUME NEW s \in DriverState, NEW i \in DOMAIN s.event,
         i = s.flip_pending => s.event[i].type = "SWAP_COMPLETE"
  PROVE  /\ Soft(s, Blit(s, i)) /\ Others(s, Blit(s, i), i)
         /\ Blit(s, i).event[i] = [s.event[i] EXCEPT !.type = "SWAP_COMPLETE"]
         /\ Blit(s, i).limit = s.limit /\ Blit(s, i).swaps = s.swaps
<1> DEFINE o == [s.event[i] EXCEPT !.type = "SWAP_COMPLETE"]
           t == With(s, i, o)
<1>0. s.event[i] \in SnaDri2Event BY EventType
<1>1. o \in SnaDri2Event /\ o.draw = s.event[i].draw /\ o.client = s.event[i].client
      /\ o.after = s.event[i].after /\ o.queued = s.event[i].queued
  BY <1>0 DEF SnaDri2Event, Type
<1>2. Blit(s, i) = t BY DEF Blit, With
<1> HIDE DEF o
<1>3. Soft(s, t) BY <1>1, SoftWith
<1>4. /\ t.event[i] = o /\ Others(s, t, i) /\ t.swaps = s.swaps /\ t.limit = s.limit
  BY <1>1, WithFacts
<1> HIDE DEF t
<1> QED BY <1>2, <1>3, <1>4 DEF o

-----------------------------------------------------------------------------
(* What the kernel is asked for, and what it has sent.                       *)

\* With the links as they are, the rest is left to show.
LEMMA LinksSane ==
  ASSUME NEW s, NEW t, NEW X, Sane(s, X), NEW i \in DOMAIN s.event,
         t \in DriverState, t.chain = s.chain, Others(s, t, i),
         t.event[i].draw = s.event[i].draw, t.event[i].client = s.event[i].client,
         t.event[i].after = s.event[i].after, Known(t), Waiting(t)
  PROVE  Sane(t, X)
<1>1. /\ DOMAIN t.event = DOMAIN s.event
      /\ \A j \in DOMAIN s.event :
           /\ t.event[j].draw = s.event[j].draw /\ t.event[j].client = s.event[j].client
           /\ t.event[j].after = s.event[j].after
  BY DEF Others
<1>2. Chained(t) BY <1>1 DEF Sane, Chained
<1>3. Distinct(t) BY <1>1 DEF Sane, Distinct
<1>4. Linked(t, X) BY <1>1 DEF Sane, Linked
<1>5. Owned(t) BY <1>1 DEF Sane, Owned
<1> QED BY <1>2, <1>3, <1>4, <1>5 DEF Sane

\* To wait for a vblank, for an event that the kernel does not have.
LEMMA VblankFacts ==
  ASSUME NEW s, NEW X, Sane(s, X), NEW i \in DOMAIN s.event,
         i # s.flip, i # s.flip_pending
  PROVE  /\ Sane(WaitVblank(s, i), X)
         /\ WaitVblank(s, i).event[i] = [s.event[i] EXCEPT !.queued = TRUE]
         /\ Others(s, WaitVblank(s, i), i)
         /\ WaitVblank(s, i).chain = s.chain /\ WaitVblank(s, i).flip = s.flip
         /\ WaitVblank(s, i).flip_pending = s.flip_pending
         /\ WaitVblank(s, i).swaps = s.swaps /\ WaitVblank(s, i).limit = s.limit
<1> DEFINE o == [s.event[i] EXCEPT !.queued = TRUE]
           r == With(s, i, o)
           t == [r EXCEPT !.vblanks = @ \cup {i}]
<1>0. s \in DriverState /\ Known(s) /\ Waiting(s) BY DEF Sane
<1>1. i \in Info /\ i # Present /\ i # 0 /\ s.event[i] \in SnaDri2Event BY <1>0, EventType
<1>2. o \in SnaDri2Event /\ o.draw = s.event[i].draw /\ o.client = s.event[i].client
      /\ o.after = s.event[i].after /\ o.queued = TRUE
  BY <1>1 DEF SnaDri2Event
<1>3. WaitVblank(s, i) = t BY DEF WaitVblank, With
<1> HIDE DEF o
<1>4. r \in DriverState /\ r.event[i] = o /\ Others(s, r, i) /\ Same(s, r)
      /\ r.swaps = s.swaps /\ r.limit = s.limit
  BY <1>0, <1>2, WithFacts
<1> HIDE DEF r
<1>5. t.event = r.event /\ t.chain = r.chain /\ t.flip_pending = r.flip_pending
      /\ t.flip = r.flip /\ t.vblanks = r.vblanks \cup {i} /\ t.swaps = r.swaps /\ t.limit = r.limit
  BY <1>4 DEF DriverState
<1>6. t \in DriverState BY <1>1, <1>4 DEF DriverState
<1> HIDE DEF t
<1>7. t.event[i] = o /\ Others(s, t, i) /\ t.chain = s.chain /\ t.flip = s.flip
      /\ t.flip_pending = s.flip_pending /\ t.swaps = s.swaps /\ t.limit = s.limit
      /\ t.vblanks = s.vblanks \cup {i}
  BY <1>4, <1>5 DEF Others, Same
<1>8. Known(t)
  <2>1. {j \in DOMAIN t.event : t.event[j].queued} = {j \in DOMAIN s.event : s.event[j].queued} \cup {i}
    BY <1>2, <1>7 DEF Others
  <2> QED BY <1>0, <1>7, <2>1 DEF Known
<1>9. Waiting(t) BY <1>0, <1>7 DEF Waiting, Others
<1>10. Sane(t, X) BY <1>2, <1>6, <1>7, <1>8, <1>9, LinksSane
<1> QED BY <1>3, <1>7, <1>10 DEF o

\* A flip, when there is none.
LEMMA FlipFacts ==
  ASSUME NEW s, NEW X, Sane(s, X), NEW i \in DOMAIN s.event,
         s.flip = 0, ~s.event[i].queued, s.event[i].type # "SWAP_COMPLETE"
  PROVE  /\ Sane(Flip(s, i), X) /\ Ahead(Flip(s, i))
         /\ Flip(s, i).event[i] = [s.event[i] EXCEPT !.queued = TRUE]
         /\ Others(s, Flip(s, i), i)
         /\ Flip(s, i).chain = s.chain /\ Flip(s, i).flip = i /\ Flip(s, i).flip_pending = i
         /\ Flip(s, i).swaps = s.swaps /\ Flip(s, i).limit = s.limit
<1> DEFINE o == [s.event[i] EXCEPT !.queued = TRUE]
           r == With(s, i, o)
           t == [r EXCEPT !.flip = i, !.flip_pending = i]
<1>0. s \in DriverState /\ Known(s) /\ Waiting(s) BY DEF Sane
<1>1. /\ i \in Info /\ i # Present /\ i # 0 /\ i \in 0..Present /\ i \in 0..Events
      /\ s.event[i] \in SnaDri2Event
  BY <1>0, EventType, BoundsAssumption DEF Info, Present
<1>2. o \in SnaDri2Event /\ o.draw = s.event[i].draw /\ o.client = s.event[i].client
      /\ o.after = s.event[i].after /\ o.queued = TRUE /\ o.type = s.event[i].type
  BY <1>1 DEF SnaDri2Event
<1>3. Flip(s, i) = t BY DEF Flip, With
<1> HIDE DEF o
<1>4. r \in DriverState /\ r.event[i] = o /\ Others(s, r, i) /\ Same(s, r)
      /\ r.swaps = s.swaps /\ r.limit = s.limit
  BY <1>0, <1>2, WithFacts
<1> HIDE DEF r
<1>5. t.event = r.event /\ t.chain = r.chain /\ t.flip_pending = i
      /\ t.flip = i /\ t.vblanks = r.vblanks /\ t.swaps = r.swaps /\ t.limit = r.limit
  BY <1>4 DEF DriverState
<1>6. t \in DriverState BY <1>1, <1>4 DEF DriverState
<1> HIDE DEF t
<1>7. t.event[i] = o /\ Others(s, t, i) /\ t.chain = s.chain /\ t.flip = i
      /\ t.flip_pending = i /\ t.swaps = s.swaps /\ t.limit = s.limit
      /\ t.vblanks = s.vblanks
  BY <1>4, <1>5 DEF Others, Same
<1>8. Known(t)
  <2>1. {j \in DOMAIN t.event : t.event[j].queued} = {j \in DOMAIN s.event : s.event[j].queued} \cup {i}
    BY <1>2, <1>7 DEF Others
  <2>2. i \notin s.vblanks BY <1>0 DEF Known
  <2> QED BY <1>0, <1>1, <1>7, <2>1, <2>2 DEF Known
<1>9. Waiting(t) BY <1>2, <1>7 DEF Waiting, Others
<1>10. Sane(t, X) BY <1>2, <1>6, <1>7, <1>8, <1>9, LinksSane
<1>11. Ahead(t) BY <1>1, <1>7 DEF Ahead
<1> QED BY <1>3, <1>7, <1>10, <1>11 DEF o

\* The kernel sends the event of a vblank.
LEMMA SentFacts ==
  ASSUME Sane(State, {}), NEW i \in vblanks
  PROVE  /\ Sane(Sent(i), {}) /\ i \in DOMAIN event /\ event[i].queued
         /\ i # flip /\ i # flip_pending
         /\ Sent(i).event[i] = [event[i] EXCEPT !.queued = FALSE]
         /\ Others(State, Sent(i), i)
         /\ Sent(i).chain = chain /\ Sent(i).flip = flip /\ Sent(i).flip_pending = flip_pending
         /\ Sent(i).swaps = swaps /\ Sent(i).limit = limit
<1> DEFINE s == State
<1>0. s \in DriverState /\ Known(s) /\ Waiting(s) BY DEF Sane
<1>a. s.event = event /\ s.chain = chain /\ s.flip = flip /\ s.flip_pending = flip_pending
      /\ s.vblanks = vblanks /\ s.swaps = swaps /\ s.limit = limit
  BY DEF State
<1> DEFINE o == [s.event[i] EXCEPT !.queued = FALSE]
           r == With(s, i, o)
           t == [r EXCEPT !.vblanks = @ \ {i}]
<1>3. Sent(i) = t BY DEF Sent, With
<1> HIDE DEF s
<1>b. i \in DOMAIN s.event /\ s.event[i].queued /\ i # s.flip BY <1>0, <1>a DEF Known
<1>1. i \in Info /\ i # Present /\ i # 0 /\ s.event[i] \in SnaDri2Event BY <1>0, <1>b, EventType
<1>c. i # s.flip_pending BY <1>0, <1>1, <1>b DEF Waiting
<1>2. o \in SnaDri2Event /\ o.draw = s.event[i].draw /\ o.client = s.event[i].client
      /\ o.after = s.event[i].after /\ o.queued = FALSE
  BY <1>1 DEF SnaDri2Event
<1> HIDE DEF o
<1>4. r \in DriverState /\ r.event[i] = o /\ Others(s, r, i) /\ Same(s, r)
      /\ r.swaps = s.swaps /\ r.limit = s.limit
  BY <1>0, <1>b, <1>2, WithFacts
<1> HIDE DEF r
<1>5. t.event = r.event /\ t.chain = r.chain /\ t.flip_pending = r.flip_pending
      /\ t.flip = r.flip /\ t.vblanks = r.vblanks \ {i} /\ t.swaps = r.swaps /\ t.limit = r.limit
  BY <1>4 DEF DriverState
<1>6. t \in DriverState BY <1>1, <1>4 DEF DriverState
<1> HIDE DEF t
<1>7. t.event[i] = o /\ Others(s, t, i) /\ t.chain = s.chain /\ t.flip = s.flip
      /\ t.flip_pending = s.flip_pending /\ t.swaps = s.swaps /\ t.limit = s.limit
      /\ t.vblanks = s.vblanks \ {i}
  BY <1>4, <1>5 DEF Others, Same
<1>8. Known(t)
  <2>1. {j \in DOMAIN t.event : t.event[j].queued} = {j \in DOMAIN s.event : s.event[j].queued} \ {i}
    BY <1>2, <1>7 DEF Others
  <2> QED BY <1>0, <1>b, <1>7, <2>1 DEF Known
<1>9. Waiting(t) BY <1>0, <1>c, <1>7 DEF Waiting, Others
<1>d. Sane(s, {}) BY DEF s
<1>10. Sane(t, {}) BY <1>b, <1>d, <1>2, <1>6, <1>7, <1>8, <1>9, LinksSane
<1> QED BY <1>3, <1>7, <1>10, <1>a, <1>b, <1>c DEF o, s

\* The flip is complete.
LEMMA FlippedFacts ==
  ASSUME Sane(State, {}), NEW i \in Info, flip = i
  PROVE  /\ Sane(Flipped(i), {}) /\ i \in DOMAIN event /\ event[i].queued
         /\ Flipped(i).event[i] = [event[i] EXCEPT !.queued = FALSE]
         /\ Others(State, Flipped(i), i)
         /\ Flipped(i).chain = chain /\ Flipped(i).flip = 0
         /\ Flipped(i).flip_pending = IF flip_pending = i THEN 0 ELSE flip_pending
         /\ Flipped(i).swaps = swaps /\ Flipped(i).limit = limit
<1> DEFINE s == State
<1>0. s \in DriverState /\ Known(s) /\ Waiting(s) BY DEF Sane
<1>a. s.event = event /\ s.chain = chain /\ s.flip = flip /\ s.flip_pending = flip_pending
      /\ s.vblanks = vblanks /\ s.swaps = swaps /\ s.limit = limit
  BY DEF State
<1> DEFINE o == [s.event[i] EXCEPT !.queued = FALSE]
           r == With(s, i, o)
           t == [r EXCEPT !.flip = 0, !.flip_pending = IF @ = i THEN 0 ELSE @]
<1>3. Flipped(i) = t BY DEF Flipped, With
<1> HIDE DEF s
<1>e. i # 0 /\ i # Present /\ 0 \in 0..Present /\ 0 \in 0..Events
  BY BoundsAssumption DEF Info, Present
<1>b. i \in DOMAIN s.event /\ s.event[i].queued /\ i \notin s.vblanks BY <1>0, <1>a, <1>e DEF Known
<1>1. s.event[i] \in SnaDri2Event BY <1>0, <1>b, EventType
<1>2. o \in SnaDri2Event /\ o.draw = s.event[i].draw /\ o.client = s.event[i].client
      /\ o.after = s.event[i].after /\ o.queued = FALSE
  BY <1>1 DEF SnaDri2Event
<1> HIDE DEF o
<1>4. r \in DriverState /\ r.event[i] = o /\ Others(s, r, i) /\ Same(s, r)
      /\ r.swaps = s.swaps /\ r.limit = s.limit
  BY <1>0, <1>b, <1>2, WithFacts
<1> HIDE DEF r
<1>5. t.event = r.event /\ t.chain = r.chain
      /\ t.flip_pending = (IF r.flip_pending = i THEN 0 ELSE r.flip_pending)
      /\ t.flip = 0 /\ t.vblanks = r.vblanks /\ t.swaps = r.swaps /\ t.limit = r.limit
  BY <1>4 DEF DriverState
<1>6. t \in DriverState BY <1>e, <1>4 DEF DriverState
<1> HIDE DEF t
<1>7. t.event[i] = o /\ Others(s, t, i) /\ t.chain = s.chain /\ t.flip = 0
      /\ t.flip_pending = (IF s.flip_pending = i THEN 0 ELSE s.flip_pending)
      /\ t.swaps = s.swaps /\ t.limit = s.limit /\ t.vblanks = s.vblanks
  BY <1>4, <1>5 DEF Others, Same
<1>8. Known(t)
  <2>1. {j \in DOMAIN t.event : t.event[j].queued} = {j \in DOMAIN s.event : s.event[j].queued} \ {i}
    BY <1>2, <1>7 DEF Others
  <2>2. 0 \notin s.vblanks BY <1>0, StateTypes, BoundsAssumption DEF Info
  <2>3. s.flip = i BY <1>a
  <2> QED BY <1>0, <1>b, <1>e, <1>7, <2>1, <2>2, <2>3 DEF Known
<1>9. Waiting(t)
  <2>1. s.flip = i BY <1>a
  <2> QED BY <1>0, <1>7, <2>1 DEF Waiting, Others
<1>d. Sane(s, {}) BY DEF s
<1>10. Sane(t, {}) BY <1>b, <1>d, <1>2, <1>6, <1>7, <1>8, <1>9, LinksSane
<1> QED BY <1>3, <1>7, <1>10, <1>a, <1>b DEF o, s

-----------------------------------------------------------------------------
(* What the chains lose and gain.                                            *)

\* What is left of a chain was in it, in the same order.
Thinner(r, q, S) ==
  /\ r \in Seq(Info)
  /\ \A k \in 1..Len(r) : In(q, r[k]) /\ r[k] \notin S
  /\ \A i : In(q, i) /\ i \notin S => In(r, i)
  /\ (\A j, k \in 1..Len(q) : q[j] = q[k] => j = k)
       => \A j, k \in 1..Len(r) : r[j] = r[k] => j = k
  /\ \A k \in 2..Len(r) : \E j \in 2..Len(q) : q[j] = r[k]

\* So it is with Without.
LEMMA WithoutThinner ==
  ASSUME NEW q \in Seq(Info), NEW S PROVE Thinner(Without(q, S), q, S)
<1> DEFINE r == Without(q, S)
<1>1. /\ r \in Seq(Info)
      /\ \E f : Subsequence(r, q, S, f)
      /\ \A k \in 1..Len(q) : q[k] \notin S => \E j \in 1..Len(r) : r[j] = q[k]
  BY WithoutFacts, SMTT(30)
<1> HIDE DEF r
<1>2. PICK f : Subsequence(r, q, S, f) BY <1>1
<1>3. /\ \A k \in 1..Len(r) : f[k] \in 1..Len(q) /\ r[k] = q[f[k]] /\ q[f[k]] \notin S
      /\ \A j, k \in 1..Len(r) : j < k => f[j] < f[k]
  BY <1>2 DEF Subsequence
<1>4. Len(r) \in Nat /\ Len(q) \in Nat BY <1>1
<1>5. \A k \in 1..Len(r) : In(q, r[k]) /\ r[k] \notin S BY <1>3 DEF In
<1>6. \A i : In(q, i) /\ i \notin S => In(r, i) BY <1>1 DEF In
<1>7. ASSUME \A j, k \in 1..Len(q) : q[j] = q[k] => j = k,
             NEW j \in 1..Len(r), NEW k \in 1..Len(r), r[j] = r[k]
      PROVE  j = k
  <2>1. f[j] = f[k] BY <1>3, <1>7
  <2>2. ~ (j < k) /\ ~ (k < j) BY <1>3, <1>4, <2>1
  <2> QED BY <1>4, <2>2
<1>8. ASSUME NEW k \in 2..Len(r) PROVE \E j \in 2..Len(q) : q[j] = r[k]
  <2>1. 1 \in 1..Len(r) /\ k \in 1..Len(r) /\ 1 < k BY <1>4
  <2>2. f[1] < f[k] /\ f[1] \in 1..Len(q) /\ f[k] \in 1..Len(q) BY <1>3, <2>1
  <2>3. f[k] \in 2..Len(q) BY <1>4, <2>2
  <2> QED BY <1>3, <2>1, <2>3
<1>9. Thinner(r, q, S) BY <1>1, <1>5, <1>6, <1>7, <1>8 DEF Thinner
<1> QED BY <1>9 DEF r

\* Events are taken out of the chains.
Thinned(s, t, S) ==
  /\ t.chain \in [Windows -> Seq(Info)]
  /\ \A w \in Windows : Thinner(t.chain[w], s.chain[w], S)

\* With nothing else changed, those are no longer linked.
LEMMA ThinnedLinks ==
  ASSUME NEW s, NEW t, NEW X, NEW S, Sane(s, X), Thinned(s, t, S),
         t \in DriverState, DOMAIN t.event \subseteq DOMAIN s.event,
         \A j \in DOMAIN t.event : t.event[j].draw = s.event[j].draw \/ j \in S,
         \A j \in DOMAIN t.event : t.event[j].draw # None => t.event[j].draw = s.event[j].draw,
         \A w \in Windows : \A k \in 1..Len(t.chain[w]) : t.chain[w][k] \in DOMAIN t.event
  PROVE  Chained(t) /\ Distinct(t) /\ Linked(t, X \cup {j \in S : t.event[j].draw # None})
<1>0. s \in DriverState /\ Chained(s) /\ Distinct(s) /\ Linked(s, X) BY DEF Sane
<1>1. ASSUME NEW w \in Windows
      PROVE  /\ \A k \in 1..Len(t.chain[w]) : t.event[t.chain[w][k]].draw = w
             /\ \A j, k \in 1..Len(t.chain[w]) : t.chain[w][j] = t.chain[w][k] => j = k
  <2> DEFINE r == t.chain[w]
             q == s.chain[w]
  <2>1. Thinner(r, q, S) BY DEF Thinned
  <2>2. \A j, k \in 1..Len(q) : q[j] = q[k] => j = k BY <1>0 DEF Distinct
  <2>3. \A k \in 1..Len(r) : r[k] \in DOMAIN t.event OBVIOUS
  <2>4. \A i : In(q, i) => s.event[i].draw = w BY <1>0 DEF Chained, In
  <2> HIDE DEF r, q
  <2>5. \A j, k \in 1..Len(r) : r[j] = r[k] => j = k BY <2>1, <2>2 DEF Thinner
  <2>6. ASSUME NEW k \in 1..Len(r) PROVE t.event[r[k]].draw = w
    <3>1. In(q, r[k]) /\ r[k] \notin S BY <2>1 DEF Thinner
    <3> QED BY <2>3, <2>4, <3>1
  <2> QED BY <2>5, <2>6 DEF r
<1>2. Chained(t) BY <1>1 DEF Chained
<1>3. Distinct(t) BY <1>1 DEF Distinct
<1>4. ASSUME NEW i \in DOMAIN t.event \ (X \cup {j \in S : t.event[j].draw # None}),
             t.event[i].draw # None
      PROVE  In(t.chain[t.event[i].draw], i)
  <2>1. i \in DOMAIN s.event \ X /\ i \notin S /\ t.event[i].draw = s.event[i].draw BY <1>4
  <2> DEFINE w == t.event[i].draw
  <2>2. w \in Windows
    <3>1. t.event[i] \in SnaDri2Event BY <1>4, EventType
    <3>2. w \in Windows \cup {None} BY <3>1 DEF SnaDri2Event
    <3> QED BY <1>4, <3>2
  <2>3. In(s.chain[w], i) BY <1>0, <1>4, <2>1 DEF Linked
  <2> HIDE DEF w
  <2>4. Thinner(t.chain[w], s.chain[w], S) BY <2>2 DEF Thinned
  <2>5. In(t.chain[w], i) BY <2>1, <2>3, <2>4 DEF Thinner
  <2> QED BY <2>5 DEF w
<1>5. Linked(t, X \cup {j \in S : t.event[j].draw # None}) BY <1>4 DEF Linked
<1> QED BY <1>2, <1>3, <1>5

\* sna_dri2_remove_event.
LEMMA RemoveFacts ==
  ASSUME NEW s, NEW X, Sane(s, X), NEW i \in DOMAIN s.event
  PROVE  /\ Sane(Remove1(s, i), X \cup {i}) /\ Thinned(s, Remove1(s, i), {i})
         /\ Remove1(s, i).event = s.event /\ Remove1(s, i).flip_pending = s.flip_pending
         /\ Remove1(s, i).flip = s.flip /\ Remove1(s, i).vblanks = s.vblanks
         /\ Remove1(s, i).swaps = s.swaps /\ Remove1(s, i).limit = s.limit
<1> DEFINE c == [w \in Windows |-> Without(s.chain[w], {i})]
           t == [s EXCEPT !.chain = c]
<1>0. s \in DriverState /\ Chained(s) /\ Known(s) /\ Waiting(s) /\ Owned(s) BY DEF Sane
<1>1. Remove1(s, i) = t BY <1>0 DEF Remove1, DriverState
<1>2. \A w \in Windows : Thinner(c[w], s.chain[w], {i})
  <2>1. ASSUME NEW w \in Windows PROVE Thinner(Without(s.chain[w], {i}), s.chain[w], {i})
    <3>1. s.chain[w] \in Seq(Info) BY <1>0, StateTypes
    <3> QED BY <3>1, WithoutThinner
  <2> QED BY <2>1
<1>3. c \in [Windows -> Seq(Info)]
  <2>1. \A w \in Windows : c[w] \in Seq(Info) BY <1>2 DEF Thinner
  <2> QED BY <2>1
<1> HIDE DEF c
<1>4. t \in DriverState BY <1>0, <1>3 DEF DriverState
<1>5. t.event = s.event /\ t.chain = c /\ t.flip_pending = s.flip_pending /\ t.flip = s.flip
      /\ t.vblanks = s.vblanks /\ t.swaps = s.swaps /\ t.limit = s.limit
  BY <1>0 DEF DriverState
<1> HIDE DEF t
<1>6. Thinned(s, t, {i}) BY <1>2, <1>3, <1>5 DEF Thinned
<1>7. \A w \in Windows : \A k \in 1..Len(t.chain[w]) : t.chain[w][k] \in DOMAIN t.event
  <2>1. ASSUME NEW w \in Windows, NEW k \in 1..Len(t.chain[w])
        PROVE  t.chain[w][k] \in DOMAIN s.event
    <3>1. In(s.chain[w], t.chain[w][k]) BY <1>6 DEF Thinned, Thinner
    <3> QED BY <1>0, <3>1 DEF In, Chained
  <2> QED BY <1>5, <2>1
<1>8. Chained(t) /\ Distinct(t) /\ Linked(t, X \cup {j \in {i} : t.event[j].draw # None})
  <2> DEFINE S == {i}
  <2>1. /\ \A j \in DOMAIN t.event : t.event[j].draw = s.event[j].draw \/ j \in S
        /\ \A j \in DOMAIN t.event : t.event[j].draw # None => t.event[j].draw = s.event[j].draw
        /\ DOMAIN t.event \subseteq DOMAIN s.event
    BY <1>5
  <2>2. Thinned(s, t, S) BY <1>6
  <2> HIDE DEF S
  <2>3. Chained(t) /\ Distinct(t) /\ Linked(t, X \cup {j \in S : t.event[j].draw # None})
    BY <1>4, <1>7, <2>1, <2>2, ThinnedLinks
  <2> QED BY <2>3 DEF S
<1>9. Linked(t, X \cup {i}) BY <1>8 DEF Linked
<1>10. Owned(t) /\ Known(t) /\ Waiting(t) BY <1>0, <1>5 DEF Owned, Known, Waiting
<1>11. Sane(t, X \cup {i}) BY <1>4, <1>8, <1>9, <1>10 DEF Sane
<1> QED BY <1>1, <1>5, <1>6, <1>11

\* Some of the events.
LEMMA EventPart ==
  ASSUME NEW e \in EventMap, NEW D
  PROVE  /\ [j \in DOMAIN e \ D |-> e[j]] \in EventMap
         /\ DOMAIN [j \in DOMAIN e \ D |-> e[j]] = DOMAIN e \ D
         /\ \A i \in DOMAIN e \ D : [j \in DOMAIN e \ D |-> e[j]][i] = e[i]
<1> DEFINE t == [j \in DOMAIN e \ D |-> e[j]]
<1>1. DOMAIN e \subseteq Info /\ \A j \in DOMAIN e : e[j] \in SnaDri2Event BY EventMaps
<1>2. DOMAIN t = DOMAIN e \ D /\ \A j \in DOMAIN e \ D : t[j] = e[j] OBVIOUS
<1>3. t = [j \in DOMAIN t |-> t[j]] OBVIOUS
<1> HIDE DEF t
<1>4. t \in EventMap BY <1>1, <1>2, <1>3, EventMaps
<1> QED BY <1>2, <1>4 DEF t

\* The event i is freed.
IsFreed(s, t, X, i) ==
  /\ Sane(t, X \ {i}) /\ Thinned(s, t, {i})
  /\ DOMAIN t.event = DOMAIN s.event \ {i}
  /\ \A j \in DOMAIN s.event \ {i} : t.event[j] = s.event[j]
  /\ t.flip_pending = IF s.flip_pending = i THEN 0 ELSE s.flip_pending
  /\ t.flip = s.flip
  /\ t.swaps = s.swaps /\ t.limit = s.limit

\* sna_dri2_event_free, of an event that the kernel does not have.
LEMMA FreeFacts ==
  ASSUME NEW s, NEW X, Sane(s, X), NEW i \in DOMAIN s.event, ~s.event[i].queued
  PROVE  IsFreed(s, Free(s, i), X, i)
<1> DEFINE r == Remove1(s, i)
           e == [j \in DOMAIN r.event \ {i} |-> r.event[j]]
           t == [r EXCEPT !.event = e, !.flip_pending = IF @ = i THEN 0 ELSE @]
<1>0. s \in DriverState /\ Chained(s) /\ Known(s) /\ Waiting(s) /\ Owned(s) BY DEF Sane
<1>1. Free(s, i) = t BY DEF Free
<1>2. /\ Sane(r, X \cup {i}) /\ Thinned(s, r, {i})
      /\ r.event = s.event /\ r.flip_pending = s.flip_pending
      /\ r.flip = s.flip /\ r.vblanks = s.vblanks
      /\ r.swaps = s.swaps /\ r.limit = s.limit
  BY RemoveFacts
<1> HIDE DEF r
<1>3. r \in DriverState /\ Chained(r) /\ Distinct(r) /\ Linked(r, X \cup {i}) BY <1>2 DEF Sane
<1>4. /\ e \in EventMap /\ DOMAIN e = DOMAIN s.event \ {i}
      /\ \A j \in DOMAIN s.event \ {i} : e[j] = s.event[j]
  <2>1. r.event \in EventMap BY <1>3 DEF DriverState
  <2> DEFINE D == {i}
  <2> HIDE DEF D
  <2>2. /\ [j \in DOMAIN r.event \ D |-> r.event[j]] \in EventMap
        /\ DOMAIN [j \in DOMAIN r.event \ D |-> r.event[j]] = DOMAIN r.event \ D
        /\ \A k \in DOMAIN r.event \ D : [j \in DOMAIN r.event \ D |-> r.event[j]][k] = r.event[k]
    BY <2>1, EventPart
  <2> QED BY <1>2, <2>2 DEF D
<1> HIDE DEF e
<1>5. t.event = e /\ t.chain = r.chain
      /\ t.flip_pending = (IF r.flip_pending = i THEN 0 ELSE r.flip_pending)
      /\ t.flip = r.flip /\ t.vblanks = r.vblanks /\ t.swaps = r.swaps /\ t.limit = r.limit
  BY <1>3 DEF DriverState
<1>6. t \in DriverState
  <2>1. 0 \in 0..Events BY BoundsAssumption
  <2> QED BY <1>3, <1>4, <2>1 DEF DriverState
<1> HIDE DEF t
<1>7. Thinned(s, t, {i}) BY <1>2, <1>5 DEF Thinned
<1>8. DOMAIN t.event = DOMAIN s.event \ {i} /\ \A j \in DOMAIN s.event \ {i} : t.event[j] = s.event[j]
  BY <1>4, <1>5
<1>9. Chained(t)
  <2>1. ASSUME NEW w \in Windows, NEW k \in 1..Len(t.chain[w])
        PROVE  t.chain[w][k] \in DOMAIN t.event /\ t.event[t.chain[w][k]].draw = w
    <3>1. t.chain[w][k] \in DOMAIN s.event /\ s.event[t.chain[w][k]].draw = w
      BY <1>2, <1>3, <1>5, <2>1 DEF Chained
    <3>2. t.chain[w][k] # i BY <1>7 DEF Thinned, Thinner
    <3> QED BY <1>8, <3>1, <3>2
  <2> QED BY <2>1 DEF Chained
<1>10. Distinct(t) BY <1>3, <1>5 DEF Distinct
<1>11. Linked(t, X \ {i})
  <2>1. ASSUME NEW j \in DOMAIN t.event \ (X \ {i}), t.event[j].draw # None
        PROVE  In(t.chain[t.event[j].draw], j)
    <3>1. j \in DOMAIN r.event \ (X \cup {i}) /\ t.event[j] = r.event[j] BY <1>2, <1>8, <2>1
    <3> QED BY <1>3, <1>5, <2>1, <3>1 DEF Linked
  <2> QED BY <2>1 DEF Linked
<1>12. Owned(t) BY <1>0, <1>8 DEF Owned
<1>13. Known(t)
  <2>1. {j \in DOMAIN t.event : t.event[j].queued} = {j \in DOMAIN s.event : s.event[j].queued}
    BY <1>8
  <2> QED BY <1>0, <1>2, <1>5, <2>1 DEF Known
<1>14. Waiting(t) BY <1>0, <1>2, <1>5, <1>8 DEF Waiting
<1>15. Sane(t, X \ {i}) BY <1>6, <1>9, <1>10, <1>11, <1>12, <1>13, <1>14 DEF Sane
<1> QED BY <1>1, <1>2, <1>5, <1>7, <1>8, <1>15 DEF IsFreed

\* An event that was not allocated.
LEMMA FreshFacts ==
  ASSUME NEW s \in DriverState, NEW i \in Fresh(s)
  PROVE  i \in Info /\ i \notin DOMAIN s.event /\ i # 0 /\ i # Present /\ i \in 0..Events
BY BoundsAssumption DEF Fresh, Info, Present

\* sna_dri2_add_event.
LEMMA AddFacts ==
  ASSUME NEW s, NEW X, Sane(s, X), NEW i \in Fresh(s), NEW info \in SnaDri2Event,
         <<info.client, info.draw>> \in Draws, info.after = 0, ~info.queued
  PROVE  /\ Sane(AddEvent(s, i, info), X)
         /\ DOMAIN AddEvent(s, i, info).event = DOMAIN s.event \cup {i}
         /\ AddEvent(s, i, info).event[i] = info /\ i \notin DOMAIN s.event /\ i \in Info
         /\ \A j \in DOMAIN s.event : AddEvent(s, i, info).event[j] = s.event[j]
         /\ AddEvent(s, i, info).chain = [s.chain EXCEPT ![info.draw] = Append(@, i)]
         /\ AddEvent(s, i, info).flip_pending = s.flip_pending
         /\ AddEvent(s, i, info).flip = s.flip /\ AddEvent(s, i, info).vblanks = s.vblanks
         /\ AddEvent(s, i, info).swaps = s.swaps /\ AddEvent(s, i, info).limit = s.limit
<1> DEFINE v == info.draw
           e == [j \in DOMAIN s.event \cup {i} |-> IF j = i THEN info ELSE s.event[j]]
           c == [s.chain EXCEPT ![v] = Append(@, i)]
           t == [s EXCEPT !.event = e, !.chain = c]
<1>0. /\ s \in DriverState /\ Chained(s) /\ Distinct(s) /\ Linked(s, X)
      /\ Known(s) /\ Waiting(s) /\ Owned(s)
  BY DEF Sane
<1>1. i \in Info /\ i \notin DOMAIN s.event /\ i # 0 /\ i # Present BY <1>0, FreshFacts
<1>2. v \in Windows /\ info.client \in Clients BY BoundsAssumption
<1>3. AddEvent(s, i, info) = t BY DEF AddEvent
<1>4. /\ e \in EventMap /\ DOMAIN e = DOMAIN s.event \cup {i} /\ e[i] = info
      /\ \A j \in DOMAIN s.event : e[j] = s.event[j]
  <2>1. s.event \in EventMap BY <1>0 DEF DriverState
  <2>2. DOMAIN s.event \subseteq Info /\ \A j \in DOMAIN s.event : s.event[j] \in SnaDri2Event
    BY <2>1, EventMaps
  <2>3. DOMAIN e = DOMAIN s.event \cup {i} /\ e[i] = info
        /\ \A j \in DOMAIN s.event : e[j] = s.event[j]
    BY <1>1
  <2>4. e = [j \in DOMAIN e |-> e[j]] OBVIOUS
  <2> HIDE DEF e
  <2>5. e \in EventMap BY <1>1, <2>2, <2>3, <2>4, EventMaps
  <2> QED BY <2>3, <2>5
<1>5. /\ c \in [Windows -> Seq(Info)] /\ c[v] = Append(s.chain[v], i)
      /\ \A w \in Windows : w # v => c[w] = s.chain[w]
  <2>1. s.chain \in [Windows -> Seq(Info)] BY <1>0, StateTypes
  <2>2. Append(s.chain[v], i) \in Seq(Info) BY <1>1, <1>2, <2>1
  <2> QED BY <1>2, <2>1, <2>2
<1> HIDE DEF e
<1>c. c = [s.chain EXCEPT ![info.draw] = Append(@, i)] OBVIOUS
<1> HIDE DEF c
<1>6. t \in DriverState BY <1>0, <1>4, <1>5 DEF DriverState
<1>7. t.event = e /\ t.chain = c /\ t.flip_pending = s.flip_pending
      /\ t.flip = s.flip /\ t.vblanks = s.vblanks /\ t.swaps = s.swaps /\ t.limit = s.limit
  BY <1>0 DEF DriverState
<1>v. info.draw = v OBVIOUS
<1> HIDE DEF t, v
<1>8. \A w \in Windows : s.chain[w] \in Seq(Info) /\ Len(s.chain[w]) \in Nat BY <1>0, StateTypes
<1> DEFINE q == s.chain[v]
           n == Len(q)
<1>9. n \in Nat /\ Len(c[v]) = n + 1 /\ c[v][n + 1] = i /\ \A k \in 1..n : c[v][k] = q[k]
  BY <1>2, <1>5, <1>8
<1>10. \A k \in 1..n : q[k] \in DOMAIN s.event /\ q[k] # i /\ s.event[q[k]].draw = v
  BY <1>0, <1>1, <1>2 DEF Chained
<1>11. \A j, k \in 1..n : q[j] = q[k] => j = k BY <1>0, <1>2 DEF Distinct
<1> HIDE DEF q, n
<1>12. \A k \in 1..(n + 1) : k = n + 1 \/ k \in 1..n BY <1>9
<1>13. Chained(t)
  <2>1. ASSUME NEW w \in Windows, NEW k \in 1..Len(t.chain[w])
        PROVE  t.chain[w][k] \in DOMAIN t.event /\ t.event[t.chain[w][k]].draw = w
    <3>1. CASE w # v BY <1>0, <1>4, <1>5, <1>7, <2>1, <3>1 DEF Chained
    <3>2. CASE w = v
      <4>1. k = n + 1 \/ k \in 1..n BY <1>7, <1>9, <1>12, <2>1, <3>2
      <4>2. CASE k = n + 1 BY <1>4, <1>7, <1>9, <1>v, <3>2, <4>2
      <4>3. CASE k \in 1..n BY <1>4, <1>7, <1>9, <1>10, <3>2, <4>3
      <4> QED BY <4>1, <4>2, <4>3
    <3> QED BY <3>1, <3>2
  <2> QED BY <2>1 DEF Chained
<1>14. Distinct(t)
  <2>1. ASSUME NEW w \in Windows, NEW j \in 1..Len(t.chain[w]), NEW k \in 1..Len(t.chain[w]),
               t.chain[w][j] = t.chain[w][k]
        PROVE  j = k
    <3>1. CASE w # v BY <1>0, <1>5, <1>7, <2>1, <3>1 DEF Distinct
    <3>2. CASE w = v
      <4>1. (k = n + 1 \/ k \in 1..n) /\ (j = n + 1 \/ j \in 1..n)
        BY <1>7, <1>9, <1>12, <2>1, <3>2
      <4>2. c[v][j] = c[v][k] BY <1>7, <2>1, <3>2
      <4> QED BY <1>9, <1>10, <1>11, <4>1, <4>2
    <3> QED BY <3>1, <3>2
  <2> QED BY <2>1 DEF Distinct
<1>15. Linked(t, X)
  <2>1. ASSUME NEW j \in DOMAIN t.event \ X, t.event[j].draw # None
        PROVE  In(t.chain[t.event[j].draw], j)
    <3>1. CASE j = i
      <4>1. t.event[j].draw = v BY <1>4, <1>7, <1>v, <3>1
      <4>2. n + 1 \in 1..Len(c[v]) BY <1>9
      <4> QED BY <1>7, <1>9, <3>1, <4>1, <4>2 DEF In
    <3>2. CASE j # i
      <4>1. j \in DOMAIN s.event \ X /\ t.event[j] = s.event[j] BY <1>4, <1>7, <2>1, <3>2
      <4>2. In(s.chain[s.event[j].draw], j) BY <1>0, <2>1, <4>1 DEF Linked
      <4>3. s.event[j].draw \in Windows
        <5>1. s.event[j] \in SnaDri2Event BY <1>0, <4>1, EventType
        <5>2. s.event[j].draw \in Windows \cup {None} BY <5>1 DEF SnaDri2Event
        <5> QED BY <2>1, <4>1, <5>2
      <4>4. CASE s.event[j].draw # v BY <1>5, <1>7, <4>1, <4>2, <4>3, <4>4
      <4>5. CASE s.event[j].draw = v
        <5>1. PICK k \in 1..n : q[k] = j BY <4>2, <4>5 DEF In, q, n
        <5>2. k \in 1..Len(c[v]) /\ c[v][k] = j BY <1>9, <5>1
        <5> QED BY <1>7, <4>1, <4>5, <5>2 DEF In
      <4> QED BY <4>4, <4>5
    <3> QED BY <3>1, <3>2
  <2> QED BY <2>1 DEF Linked
<1>16. Owned(t) BY <1>0, <1>4, <1>7 DEF Owned
<1>17. Known(t)
  <2>1. {j \in DOMAIN t.event : t.event[j].queued} = {j \in DOMAIN s.event : s.event[j].queued}
    BY <1>1, <1>4, <1>7
  <2> QED BY <1>0, <1>7, <2>1 DEF Known
<1>18. Waiting(t) BY <1>0, <1>4, <1>7 DEF Waiting
<1>19. Sane(t, X) BY <1>6, <1>13, <1>14, <1>15, <1>16, <1>17, <1>18 DEF Sane
<1>20. t.chain = [s.chain EXCEPT ![info.draw] = Append(@, i)] BY <1>7, <1>c
<1> QED BY <1>1, <1>3, <1>4, <1>7, <1>19, <1>20

-----------------------------------------------------------------------------
(* The ends of the handlers.                                                 *)

\* Fewer events are excepted, or more.
LEMMA SaneMore == ASSUME NEW s, NEW X, NEW Y, Sane(s, X), X \subseteq Y PROVE Sane(s, Y)
BY DEF Sane, Linked

\* Chains that lose events, and lose others.
LEMMA ThinnedTwice ==
  ASSUME NEW s, NEW t, NEW u, NEW S, NEW T, Thinned(s, t, S), Thinned(t, u, T)
  PROVE  Thinned(s, u, S \cup T)
<1>1. ASSUME NEW w \in Windows PROVE Thinner(u.chain[w], s.chain[w], S \cup T)
  <2> DEFINE p == s.chain[w]
             q == t.chain[w]
             r == u.chain[w]
  <2>1. Thinner(q, p, S) /\ Thinner(r, q, T) BY DEF Thinned
  <2> HIDE DEF p, q, r
  <2>2. r \in Seq(Info) BY <2>1 DEF Thinner
  <2>3. \A k \in 1..Len(r) : In(p, r[k]) /\ r[k] \notin S \cup T
    <3>1. ASSUME NEW k \in 1..Len(r) PROVE In(p, r[k]) /\ r[k] \notin S \cup T
      <4>1. In(q, r[k]) /\ r[k] \notin T BY <2>1 DEF Thinner
      <4>2. PICK j \in 1..Len(q) : q[j] = r[k] BY <4>1 DEF In
      <4>3. In(p, q[j]) /\ q[j] \notin S BY <2>1 DEF Thinner
      <4> QED BY <4>1, <4>2, <4>3
    <3> QED BY <3>1
  <2>4. \A i : In(p, i) /\ i \notin S \cup T => In(r, i) BY <2>1 DEF Thinner
  <2>5. (\A j, k \in 1..Len(p) : p[j] = p[k] => j = k)
          => \A j, k \in 1..Len(r) : r[j] = r[k] => j = k
    BY <2>1 DEF Thinner
  <2>6. \A k \in 2..Len(r) : \E j \in 2..Len(p) : p[j] = r[k]
    <3>1. ASSUME NEW k \in 2..Len(r) PROVE \E j \in 2..Len(p) : p[j] = r[k]
      <4>1. PICK j \in 2..Len(q) : q[j] = r[k] BY <2>1 DEF Thinner
      <4>2. PICK l \in 2..Len(p) : p[l] = q[j] BY <2>1 DEF Thinner
      <4> QED BY <4>1, <4>2
    <3> QED BY <3>1
  <2>7. Thinner(r, p, S \cup T) BY <2>2, <2>3, <2>4, <2>5, <2>6 DEF Thinner
  <2> QED BY <2>7 DEF p, r
<1>2. u.chain \in [Windows -> Seq(Info)] BY DEF Thinned
<1> QED BY <1>1, <1>2 DEF Thinned

\* Chains that stay.
LEMMA ThinnedSame ==
  ASSUME NEW s, NEW t, NEW u, NEW S, Thinned(s, t, S)
  PROVE  /\ u.chain = s.chain => Thinned(u, t, S)
         /\ u.chain = t.chain => Thinned(s, u, S)
BY DEF Thinned

\* The event waits for a vblank, as a blit; with the CRTC off, it is complete.
Begun(s, t, i) ==
  /\ on /\ Others(s, t, i) /\ t.chain = s.chain
  /\ t.event[i] = [s.event[i] EXCEPT !.type = "SWAP_COMPLETE", !.queued = TRUE]
  /\ t.swaps = s.swaps /\ t.flip_pending = s.flip_pending
Over(s, t, i) ==
  /\ ~on /\ Thinned(s, t, {i}) /\ DOMAIN t.event = DOMAIN s.event \ {i}
  /\ \A j \in DOMAIN s.event \ {i} : t.event[j] = s.event[j]
  /\ t.swaps = IF s.event[i].client = None THEN s.swaps
               ELSE [s.swaps EXCEPT ![s.event[i].draw] = @ - 1]
  /\ t.flip_pending = s.flip_pending

\* An event that the kernel does not have, and that is not pending, is blitted.
LEMMA BlitThenFacts ==
  ASSUME NEW s, NEW X, Sane(s, X), NEW i \in DOMAIN s.event,
         ~s.event[i].queued, i # s.flip_pending
  PROVE  LET t == BlitThenVblank(s, i)
         IN  /\ Sane(t, X) /\ t.flip = s.flip /\ t.limit = s.limit
             /\ Begun(s, t, i) \/ Over(s, t, i)
<1> DEFINE t == BlitThenVblank(s, i)
<1>0. s \in DriverState /\ Known(s) BY DEF Sane
<1>1. i # s.flip /\ s.event[i] \in SnaDri2Event BY <1>0, EventType DEF Known
<1>2. CASE on
  <2> DEFINE b == Blit(s, i)
             u == WaitVblank(b, i)
  <2>1. t = u BY <1>2 DEF BlitThenVblank
  <2>2. /\ Soft(s, b) /\ Others(s, b, i) /\ b.limit = s.limit /\ b.swaps = s.swaps
        /\ b.event[i] = [s.event[i] EXCEPT !.type = "SWAP_COMPLETE"]
    BY <1>0, BlitFacts
  <2> HIDE DEF b
  <2>3. Sane(b, X) BY <2>2, SoftSane
  <2>4. /\ i \in DOMAIN b.event /\ i # b.flip /\ i # b.flip_pending /\ b.chain = s.chain
        /\ b.flip = s.flip /\ b.flip_pending = s.flip_pending
    BY <1>1, <2>2 DEF Soft, Same
  <2>5. /\ Sane(u, X) /\ u.event[i] = [b.event[i] EXCEPT !.queued = TRUE] /\ Others(b, u, i)
        /\ u.chain = b.chain /\ u.flip = b.flip /\ u.flip_pending = b.flip_pending
        /\ u.swaps = b.swaps /\ u.limit = b.limit
    BY <2>3, <2>4, VblankFacts
  <2> HIDE DEF u
  <2>6. Others(s, u, i) BY <2>2, <2>5 DEF Others
  <2>7. u.event[i] = [s.event[i] EXCEPT !.type = "SWAP_COMPLETE", !.queued = TRUE]
    BY <1>1, <2>2, <2>5 DEF SnaDri2Event
  <2>8. Begun(s, u, i) BY <1>2, <2>2, <2>4, <2>5, <2>6, <2>7 DEF Begun
  <2>9. Sane(u, X) /\ u.flip = s.flip /\ u.limit = s.limit BY <2>2, <2>4, <2>5
  <2> QED BY <2>1, <2>8, <2>9
<1>3. CASE ~on
  <2> DEFINE b == Complete(s, i)
             u == Free(b, i)
  <2>1. t = u BY <1>3 DEF BlitThenVblank
  <2>2. /\ Soft(s, b) /\ Others(s, b, i) /\ b.limit = s.limit
        /\ b.swaps = IF s.event[i].client = None THEN s.swaps
                     ELSE [s.swaps EXCEPT ![s.event[i].draw] = @ - 1]
    BY <1>0, CompleteFacts
  <2> HIDE DEF b
  <2>3. Sane(b, X) BY <2>2, SoftSane
  <2>4. /\ i \in DOMAIN b.event /\ ~b.event[i].queued /\ b.chain = s.chain
        /\ b.flip = s.flip /\ b.flip_pending = s.flip_pending
    BY <2>2 DEF Soft, Same
  <2>f5. IsFreed(b, u, X, i) BY <2>3, <2>4, FreeFacts
  <2>5. /\ Sane(u, X \ {i}) /\ Thinned(b, u, {i}) /\ DOMAIN u.event = DOMAIN b.event \ {i}
        /\ \A j \in DOMAIN b.event \ {i} : u.event[j] = b.event[j]
        /\ u.flip_pending = (IF b.flip_pending = i THEN 0 ELSE b.flip_pending)
        /\ u.flip = b.flip /\ u.swaps = b.swaps /\ u.limit = b.limit
    BY <2>f5 DEF IsFreed
  <2> HIDE DEF u
  <2>6. Thinned(s, u, {i}) BY <2>4, <2>5, ThinnedSame
  <2>7. Over(s, u, i) BY <1>3, <2>2, <2>4, <2>5, <2>6 DEF Over, Others
  <2>8. X \ {i} \subseteq X OBVIOUS
  <2>9. Sane(u, X) BY <2>5, <2>8, SaneMore
  <2> QED BY <2>1, <2>2, <2>4, <2>5, <2>7, <2>9
<1> HIDE DEF t
<1> QED BY <1>2, <1>3 DEF t

\* An event that is behind another.
IsBehind(s, n) == \E w \in Windows : \E k \in 2..Len(s.chain[w]) : s.chain[w][k] = n

\* The event that comes next.
LEMMA SuccessorFacts ==
  ASSUME NEW s, NEW X, Sane(s, X), NEW i \in DOMAIN s.event, Successor(s, i) # 0
  PROVE  /\ Successor(s, i) \in DOMAIN s.event /\ Successor(s, i) # i
         /\ IsBehind(s, Successor(s, i))
<1> DEFINE At == {j \in Info : \E w \in Windows : \E k \in 2..Len(s.chain[w]) :
                     s.chain[w][k - 1] = i /\ s.chain[w][k] = j}
           n == CHOOSE j \in At : TRUE
<1>0. s \in DriverState /\ Chained(s) /\ Distinct(s) /\ Owned(s) BY DEF Sane
<1>1. Successor(s, i) = IF At = {} THEN s.event[i].after ELSE n BY DEF Successor
<1>2. At # {} /\ Successor(s, i) = n BY <1>0, <1>1 DEF Owned
<1>3. n \in At BY <1>2
<1> HIDE DEF n
<1>4. PICK w \in Windows : \E k \in 2..Len(s.chain[w]) :
           s.chain[w][k - 1] = i /\ s.chain[w][k] = n
  BY <1>3
<1>5. PICK k \in 2..Len(s.chain[w]) : s.chain[w][k - 1] = i /\ s.chain[w][k] = n BY <1>4
<1>6. Len(s.chain[w]) \in Nat BY <1>0, StateTypes
<1>7. k \in 1..Len(s.chain[w]) /\ k - 1 \in 1..Len(s.chain[w]) /\ k # k - 1 BY <1>6
<1>8. n \in DOMAIN s.event BY <1>0, <1>5, <1>7 DEF Chained
<1>9. n # i BY <1>0, <1>5, <1>7 DEF Distinct
<1>10. IsBehind(s, n) BY <1>5 DEF IsBehind
<1> QED BY <1>2, <1>8, <1>9, <1>10

\* The event is gone, and the one behind it begun, or over as well; the
\* swaps were m.
Freed(s, t, i, m) ==
  /\ Thinned(s, t, {i}) /\ DOMAIN t.event = DOMAIN s.event \ {i}
  /\ \A j \in DOMAIN s.event \ {i} : t.event[j] = s.event[j]
  /\ t.swaps = m
Startable(s, i, n) ==
  /\ n \in DOMAIN s.event \ {i} /\ IsBehind(s, n)
  /\ ~s.event[n].queued /\ s.event[n].type = "SWAP_COMPLETE"
FreedBegun(s, t, i, n, m) ==
  /\ Startable(s, i, n) /\ on /\ Thinned(s, t, {i}) /\ DOMAIN t.event = DOMAIN s.event \ {i}
  /\ \A j \in DOMAIN s.event \ {i, n} : t.event[j] = s.event[j]
  /\ t.event[n] = [s.event[n] EXCEPT !.queued = TRUE]
  /\ t.swaps = m
FreedBoth(s, t, i, n, m) ==
  /\ Startable(s, i, n) /\ ~on /\ Thinned(s, t, {i, n}) /\ DOMAIN t.event = DOMAIN s.event \ {i, n}
  /\ \A j \in DOMAIN s.event \ {i, n} : t.event[j] = s.event[j]
  /\ t.swaps = IF s.event[n].client = None THEN m
               ELSE [m EXCEPT ![s.event[n].draw] = @ - 1]
Finished(s, t, i, m) ==
  Freed(s, t, i, m) \/ \E n : FreedBegun(s, t, i, n, m) \/ FreedBoth(s, t, i, n, m)

\* The end of a handler.
LEMMA FinishFacts ==
  ASSUME NEW s, Sane(s, {}), NEW i \in DOMAIN s.event, ~s.event[i].queued
  PROVE  /\ Sane(Finish(s, i), {}) /\ Finished(s, Finish(s, i), i, s.swaps)
         /\ Finish(s, i).flip_pending = IF s.flip_pending = i THEN 0 ELSE s.flip_pending
         /\ Finish(s, i).flip = s.flip /\ Finish(s, i).limit = s.limit
<1> DEFINE t == Finish(s, i)
           n == Successor(s, i)
           N == {}
<1>n. N \ {i} = N BY DEF N
<1>0. Sane(s, N) /\ s \in DriverState /\ Known(s) /\ Waiting(s) BY DEF Sane
<1> HIDE DEF N
<1>1. CASE n = 0
  <2>1. t = Free(s, i) BY <1>1 DEF Finish
  <2> DEFINE u == Free(s, i)
  <2>f2. IsFreed(s, u, N, i) BY <1>0, FreeFacts
  <2>2. /\ Sane(u, N \ {i}) /\ Thinned(s, u, {i}) /\ DOMAIN u.event = DOMAIN s.event \ {i}
        /\ \A j \in DOMAIN s.event \ {i} : u.event[j] = s.event[j]
        /\ u.flip_pending = (IF s.flip_pending = i THEN 0 ELSE s.flip_pending)
        /\ u.flip = s.flip /\ u.swaps = s.swaps /\ u.limit = s.limit
    BY <2>f2 DEF IsFreed
  <2> HIDE DEF u
  <2>3. Freed(s, u, i, s.swaps) BY <2>2 DEF Freed
  <2>4. t = u BY <2>1 DEF u
  <2> HIDE DEF t
  <2>5. Sane(t, N) /\ Finished(s, t, i, s.swaps) BY <1>n, <2>2, <2>3, <2>4 DEF Finished
  <2> QED BY <2>2, <2>4, <2>5 DEF t, N
<1>2. CASE n # 0
  <2>1. n \in DOMAIN s.event /\ n # i /\ IsBehind(s, n) BY <1>0, <1>2, SuccessorFacts
  <2> DEFINE r == Remove1(s, i)
             c == ChainSwap(r, n)
             u == Free(c, i)
  <2>2. t = u BY <1>2 DEF Finish
  <2> HIDE DEF n
  <2>3. /\ Sane(r, N \cup {i}) /\ Thinned(s, r, {i})
        /\ r.event = s.event /\ r.flip_pending = s.flip_pending
        /\ r.flip = s.flip /\ r.swaps = s.swaps /\ r.limit = s.limit
    BY <1>0, RemoveFacts
  <2> HIDE DEF r
  <2> DEFINE X == N \cup {i}
  <2>x. X \ {i} = N BY DEF N
  <2>y. Sane(r, X) BY <2>3
  <2> HIDE DEF X
  <2>4. CASE ~ (~r.event[n].queued /\ r.event[n].type = "SWAP_COMPLETE")
    <3>1. c = r BY <2>4 DEF ChainSwap
    <3>f2. IsFreed(r, u, X, i) BY <2>3, <2>y, <3>1, FreeFacts
    <3>2. /\ Sane(u, X \ {i}) /\ Thinned(r, u, {i}) /\ DOMAIN u.event = DOMAIN r.event \ {i}
          /\ \A j \in DOMAIN r.event \ {i} : u.event[j] = r.event[j]
          /\ u.flip_pending = (IF r.flip_pending = i THEN 0 ELSE r.flip_pending)
          /\ u.flip = r.flip /\ u.swaps = r.swaps /\ u.limit = r.limit
      BY <3>f2 DEF IsFreed
    <3> HIDE DEF u, t
    <3>3. Thinned(s, u, {i} \cup {i}) BY <2>3, <3>2, ThinnedTwice
    <3>4. {i} \cup {i} = {i} OBVIOUS
    <3>5. Freed(s, u, i, s.swaps) BY <2>3, <3>2, <3>3, <3>4 DEF Freed
    <3>6. Sane(t, N) /\ Finished(s, t, i, s.swaps) BY <2>2, <2>x, <3>2, <3>5 DEF Finished
    <3> QED BY <2>2, <2>3, <3>2, <3>6 DEF t, N
  <2>5. CASE ~r.event[n].queued /\ r.event[n].type = "SWAP_COMPLETE"
    <3>1. c = BlitThenVblank(r, n) BY <2>5 DEF ChainSwap
    <3>0. n # 0 BY <1>0, <2>1, EventType
    <3>2. n # r.flip_pending BY <1>0, <2>3, <2>5, <3>0 DEF Waiting
    <3>3. n \in DOMAIN r.event BY <2>1, <2>3
    <3>4. /\ Sane(c, X) /\ c.flip = r.flip /\ c.limit = r.limit
          /\ Begun(r, c, n) \/ Over(r, c, n)
      BY <2>5, <2>y, <3>1, <3>2, <3>3, BlitThenFacts
    <3>5. Startable(s, i, n) BY <2>1, <2>3, <2>5 DEF Startable
    <3> HIDE DEF c
    <3>6. i \in DOMAIN c.event /\ ~c.event[i].queued /\ c.flip_pending = s.flip_pending
      BY <2>1, <2>3, <3>4 DEF Begun, Over, Others
    <3>f7. IsFreed(c, u, X, i) BY <3>4, <3>6, FreeFacts
    <3>7. /\ Sane(u, X \ {i}) /\ Thinned(c, u, {i}) /\ DOMAIN u.event = DOMAIN c.event \ {i}
          /\ \A j \in DOMAIN c.event \ {i} : u.event[j] = c.event[j]
          /\ u.flip_pending = (IF c.flip_pending = i THEN 0 ELSE c.flip_pending)
          /\ u.flip = c.flip /\ u.swaps = c.swaps /\ u.limit = c.limit
      BY <3>f7 DEF IsFreed
    <3> HIDE DEF u, t
    <3>8. Finished(s, t, i, s.swaps)
      <4>1. CASE Begun(r, c, n)
        <5>1. Thinned(r, u, {i}) BY <3>7, <4>1, ThinnedSame DEF Begun
        <5>2. Thinned(s, u, {i} \cup {i}) BY <2>3, <5>1, ThinnedTwice
        <5>3. {i} \cup {i} = {i} OBVIOUS
        <5>4. s.event[n] \in SnaDri2Event BY <1>0, <2>1, EventType
        <5>5. c.event[n] = [s.event[n] EXCEPT !.queued = TRUE]
          BY <2>3, <2>5, <4>1, <5>4, ZenonT(60) DEF Begun, SnaDri2Event
        <5>6. DOMAIN u.event = DOMAIN s.event \ {i} /\ u.event[n] = c.event[n]
              /\ \A j \in DOMAIN s.event \ {i, n} : u.event[j] = s.event[j]
          BY <2>1, <2>3, <3>7, <4>1 DEF Begun, Others
        <5>7. on /\ u.swaps = s.swaps BY <2>3, <3>7, <4>1 DEF Begun
        <5>8. FreedBegun(s, u, i, n, s.swaps) BY <3>5, <5>2, <5>3, <5>5, <5>6, <5>7 DEF FreedBegun
        <5> QED BY <2>2, <5>8 DEF Finished
      <4>2. CASE Over(r, c, n)
        <5>1. Thinned(r, c, {n}) BY <4>2 DEF Over
        <5>2. Thinned(s, c, {i} \cup {n}) BY <2>3, <5>1, ThinnedTwice
        <5>3. Thinned(s, u, ({i} \cup {n}) \cup {i}) BY <3>7, <5>2, ThinnedTwice
        <5>4. ({i} \cup {n}) \cup {i} = {i, n} OBVIOUS
        <5>5. DOMAIN u.event = DOMAIN s.event \ {i, n}
              /\ \A j \in DOMAIN s.event \ {i, n} : u.event[j] = s.event[j]
          BY <2>3, <3>7, <4>2 DEF Over
        <5>6. ~on /\ u.swaps = IF s.event[n].client = None THEN s.swaps
                               ELSE [s.swaps EXCEPT ![s.event[n].draw] = @ - 1]
          BY <2>3, <3>7, <4>2 DEF Over
        <5>7. FreedBoth(s, u, i, n, s.swaps) BY <3>5, <5>3, <5>4, <5>5, <5>6 DEF FreedBoth
        <5> QED BY <2>2, <5>7 DEF Finished
      <4> QED BY <3>4, <4>1, <4>2
    <3>9. Sane(t, N) BY <2>2, <2>x, <3>7
    <3> QED BY <2>2, <2>3, <3>4, <3>6, <3>7, <3>8, <3>9 DEF t, N
  <2> QED BY <2>4, <2>5
<1> QED BY <1>1, <1>2

\* Nothing is pending any more.
LEMMA NotWaiting ==
  ASSUME NEW s, NEW X, Sane(s, X)
  PROVE  LET t == [s EXCEPT !.flip_pending = 0]
         IN  /\ Sane(t, X) /\ t.event = s.event /\ t.chain = s.chain /\ t.flip = s.flip
             /\ t.flip_pending = 0
<1> DEFINE t == [s EXCEPT !.flip_pending = 0]
<1>0. /\ s \in DriverState /\ Chained(s) /\ Distinct(s) /\ Linked(s, X) /\ Owned(s) /\ Known(s)
  BY DEF Sane
<1>1. 0 \in 0..Events BY BoundsAssumption
<1>2. t \in DriverState BY <1>0, <1>1 DEF DriverState
<1>3. t.event = s.event /\ t.chain = s.chain /\ t.flip = s.flip /\ t.vblanks = s.vblanks
      /\ t.flip_pending = 0
  BY <1>0 DEF DriverState
<1> HIDE DEF t
<1>4. Chained(t) BY <1>0, <1>3 DEF Chained
<1>5. Distinct(t) BY <1>0, <1>3 DEF Distinct
<1>6. Linked(t, X) BY <1>0, <1>3 DEF Linked
<1>7. Owned(t) BY <1>0, <1>3 DEF Owned
<1>8. Known(t) BY <1>0, <1>3 DEF Known
<1>9. Waiting(t) BY <1>3 DEF Waiting
<1>10. Sane(t, X) BY <1>2, <1>4, <1>5, <1>6, <1>7, <1>8, <1>9 DEF Sane
<1> QED BY <1>3, <1>10 DEF t

\* The flip that waited is made, or blitted.
LEMMA ChainFlipFacts ==
  ASSUME NEW s, Sane(s, {}), s.flip = 0, NEW b \in BOOLEAN
  PROVE  Sane(ChainFlip(s, b), {}) /\ Ahead(ChainFlip(s, b))
<1> DEFINE i == s.flip_pending
           t == [s EXCEPT !.flip_pending = 0]
           c == ChainFlip(s, b)
           N == {}
<1>n. N \ {i} = N /\ Sane(s, N) BY DEF N
<1> HIDE DEF N
<1>0. s \in DriverState /\ Waiting(s) BY <1>n DEF Sane
<1>1. CASE i = 0
  <2>1. c = s BY <1>1 DEF ChainFlip
  <2>2. Ahead(s) BY <1>1 DEF Ahead
  <2> HIDE DEF c
  <2>3. Sane(c, {}) /\ Ahead(c) BY <2>1, <2>2
  <2> QED BY <2>3 DEF c
<1>2. CASE i # 0
  <2>1. i \in DOMAIN s.event /\ i # 0 /\ i # Present BY <1>0, <1>2, EventType DEF Waiting
  <2>2. ~s.event[i].queued /\ s.event[i].type # "SWAP_COMPLETE" BY <1>0, <1>2, <2>1 DEF Waiting
  <2>3. /\ Sane(t, N) /\ t.event = s.event /\ t.chain = s.chain /\ t.flip = 0
        /\ t.flip_pending = 0
    BY <1>n, NotWaiting
  <2>4. c = IF s.event[i].draw = None THEN Free(t, i)
            ELSE IF b THEN Flip(t, i) ELSE BlitThenVblank(t, i)
    BY <1>2 DEF ChainFlip
  <2> HIDE DEF t, i, c
  <2>5. CASE s.event[i].draw = None
    <3> DEFINE u == Free(t, i)
    <3>1. i \in DOMAIN t.event /\ ~t.event[i].queued BY <2>1, <2>2, <2>3
    <3>2. IsFreed(t, u, N, i) BY <2>3, <3>1, FreeFacts
    <3> HIDE DEF u
    <3>3. Sane(u, N \ {i}) /\ u.flip_pending = 0 BY <2>3, <3>2 DEF IsFreed
    <3>4. Ahead(u) BY <3>3 DEF Ahead
    <3>5. c = u BY <2>4, <2>5 DEF u
    <3>6. Sane(c, N) /\ Ahead(c) BY <1>n, <3>3, <3>4, <3>5
    <3> QED BY <3>6 DEF c, N
  <2>6. CASE s.event[i].draw # None /\ b
    <3> DEFINE u == Flip(t, i)
    <3>1. i \in DOMAIN t.event /\ ~t.event[i].queued /\ t.event[i].type # "SWAP_COMPLETE"
      BY <2>1, <2>2, <2>3
    <3>2. Sane(u, N) /\ Ahead(u) BY <2>3, <3>1, FlipFacts
    <3>3. c = u BY <2>4, <2>6
    <3> HIDE DEF u
    <3>4. Sane(c, N) /\ Ahead(c) BY <3>2, <3>3
    <3> QED BY <3>4 DEF c, N
  <2>7. CASE s.event[i].draw # None /\ ~b
    <3> DEFINE u == BlitThenVblank(t, i)
    <3>1. i \in DOMAIN t.event /\ ~t.event[i].queued /\ i # t.flip_pending
      BY <2>1, <2>2, <2>3
    <3>2. Sane(u, N) /\ (Begun(t, u, i) \/ Over(t, u, i)) BY <2>3, <3>1, BlitThenFacts
    <3>3. c = u BY <2>4, <2>7
    <3> HIDE DEF u
    <3>4. u.flip_pending = 0 BY <2>3, <3>2 DEF Begun, Over
    <3>5. Sane(c, N) /\ Ahead(c) BY <3>2, <3>3, <3>4 DEF Ahead
    <3> QED BY <3>5 DEF c, N
  <2> QED BY <2>5, <2>6, <2>7
<1> QED BY <1>1, <1>2

-----------------------------------------------------------------------------
(* Clients and windows that go.                                              *)

\* The events of S are taken out of the chains and are no one's.
Orphaned(s, t, S) ==
  /\ t \in DriverState /\ Thinned(s, t, S)
  /\ DOMAIN t.event = DOMAIN s.event
  /\ \A i \in DOMAIN s.event \cap S :
       /\ t.event[i].draw = None /\ t.event[i].after = 0
       /\ t.event[i].queued = s.event[i].queued /\ t.event[i].type = s.event[i].type
  /\ \A i \in DOMAIN s.event \ S : t.event[i] = s.event[i]
  /\ t.flip = s.flip /\ t.flip_pending = s.flip_pending /\ t.vblanks = s.vblanks

\* What holds still does.
LEMMA OrphanedSane ==
  ASSUME NEW s, NEW t, NEW S, Sane(s, {}), Orphaned(s, t, S) PROVE Sane(t, {})
<1>0. s \in DriverState /\ Chained(s) /\ Known(s) /\ Waiting(s) /\ Owned(s) BY DEF Sane
<1>1. /\ t \in DriverState /\ Thinned(s, t, S)
      /\ DOMAIN t.event = DOMAIN s.event
      /\ t.flip = s.flip /\ t.flip_pending = s.flip_pending /\ t.vblanks = s.vblanks
  BY DEF Orphaned
<1>2. \A i \in DOMAIN s.event :
        /\ t.event[i].draw = s.event[i].draw \/ i \in S
        /\ t.event[i].draw # None => i \notin S /\ t.event[i] = s.event[i]
        /\ t.event[i].after = 0
        /\ t.event[i].queued = s.event[i].queued /\ t.event[i].type = s.event[i].type
  BY <1>0 DEF Orphaned, Owned
<1>3. ASSUME NEW w \in Windows, NEW k \in 1..Len(t.chain[w])
      PROVE  t.chain[w][k] \in DOMAIN t.event
  <2>1. In(s.chain[w], t.chain[w][k]) BY <1>1 DEF Thinned, Thinner
  <2> QED BY <1>0, <1>1, <2>1 DEF In, Chained
<1>4. Chained(t) /\ Distinct(t) /\ Linked(t, {})
  <2> DEFINE N == {}
             X == N \cup {j \in S : t.event[j].draw # None}
  <2>1. Sane(s, N) OBVIOUS
  <2>2. DOMAIN t.event \ X = DOMAIN t.event \ N BY <1>1, <1>2
  <2> HIDE DEF N
  <2>3. \A j \in DOMAIN t.event : t.event[j].draw = s.event[j].draw \/ j \in S
    BY <1>1, <1>2
  <2>4. \A j \in DOMAIN t.event : t.event[j].draw # None => t.event[j].draw = s.event[j].draw
    BY <1>1, <1>2
  <2>5. DOMAIN t.event \subseteq DOMAIN s.event BY <1>1
  <2>6. Chained(t) /\ Distinct(t) /\ Linked(t, X)
    BY <1>1, <1>3, <2>1, <2>3, <2>4, <2>5, ThinnedLinks
  <2> HIDE DEF X
  <2>7. Linked(t, N) BY <2>2, <2>6 DEF Linked
  <2> QED BY <2>6, <2>7 DEF N
<1>5. Owned(t) BY <1>0, <1>1, <1>2 DEF Owned
<1>6. Known(t)
  <2>1. {i \in DOMAIN t.event : t.event[i].queued} = {i \in DOMAIN s.event : s.event[i].queued}
    BY <1>1, <1>2
  <2> QED BY <1>0, <1>1, <2>1 DEF Known
<1>7. Waiting(t) BY <1>0, <1>1, <1>2 DEF Waiting
<1> QED BY <1>1, <1>4, <1>5, <1>6, <1>7 DEF Sane

\* Orphans that the kernel does not have are freed.
LEMMA KeepFacts ==
  ASSUME NEW s, Sane(s, {}), Ahead(s), NEW S, S \subseteq DOMAIN s.event,
         \A i \in S : s.event[i].draw = None
  PROVE  LET t == Keep(s, S)
         IN  /\ Sane(t, {}) /\ Ahead(t)
             /\ DOMAIN t.event \subseteq DOMAIN s.event
             /\ DOMAIN s.event \ S \subseteq DOMAIN t.event
             /\ \A i \in DOMAIN t.event : t.event[i] = s.event[i]
             /\ t.chain = s.chain /\ t.flip = s.flip
             /\ s.flip_pending \notin S => t.flip_pending = s.flip_pending
             /\ t.swaps = s.swaps /\ t.limit = s.limit /\ t.vblanks = s.vblanks
<1> DEFINE dead == {i \in S : ~s.event[i].queued}
           e == [j \in DOMAIN s.event \ dead |-> s.event[j]]
           t == [s EXCEPT !.event = e, !.flip_pending = IF @ \in dead THEN 0 ELSE @]
<1>0. /\ s \in DriverState /\ Chained(s) /\ Distinct(s) /\ Linked(s, {}) /\ Owned(s)
      /\ Known(s) /\ Waiting(s)
  BY DEF Sane
<1>1. Keep(s, S) = t BY DEF Keep
<1>2. dead \subseteq S /\ \A i \in dead : ~s.event[i].queued OBVIOUS
<1> HIDE DEF dead
<1>3. /\ e \in EventMap /\ DOMAIN e = DOMAIN s.event \ dead
      /\ \A i \in DOMAIN s.event \ dead : e[i] = s.event[i]
  <2>1. s.event \in EventMap BY <1>0 DEF DriverState
  <2> QED BY <2>1, EventPart
<1> HIDE DEF e
<1>4. t \in DriverState
  <2>1. 0 \in 0..Events BY BoundsAssumption
  <2> QED BY <1>0, <1>3, <2>1 DEF DriverState
<1>5. t.event = e /\ t.chain = s.chain /\ t.flip = s.flip /\ t.vblanks = s.vblanks
      /\ t.flip_pending = (IF s.flip_pending \in dead THEN 0 ELSE s.flip_pending)
      /\ t.swaps = s.swaps /\ t.limit = s.limit
  BY <1>0 DEF DriverState
<1> HIDE DEF t
<1>6. None \notin Windows BY BoundsAssumption
<1>7. Chained(t)
  <2>1. ASSUME NEW w \in Windows, NEW k \in 1..Len(t.chain[w])
        PROVE  t.chain[w][k] \in DOMAIN t.event /\ t.event[t.chain[w][k]].draw = w
    <3>1. t.chain[w][k] \in DOMAIN s.event /\ s.event[t.chain[w][k]].draw = w
      BY <1>0, <1>5, <2>1 DEF Chained
    <3>2. t.chain[w][k] \notin dead BY <1>2, <1>6, <3>1
    <3> QED BY <1>3, <1>5, <3>1, <3>2
  <2> QED BY <2>1 DEF Chained
<1>8. Distinct(t) BY <1>0, <1>5 DEF Distinct
<1>9. Linked(t, {}) BY <1>0, <1>3, <1>5 DEF Linked
<1>10. Owned(t) BY <1>0, <1>3, <1>5 DEF Owned
<1>11. Known(t)
  <2>1. {i \in DOMAIN t.event : t.event[i].queued} = {i \in DOMAIN s.event : s.event[i].queued}
    BY <1>2, <1>3, <1>5
  <2> QED BY <1>0, <1>5, <2>1 DEF Known
<1>12. Waiting(t) BY <1>0, <1>3, <1>5 DEF Waiting
<1>13. Ahead(t) BY <1>5 DEF Ahead
<1>14. Sane(t, {}) BY <1>4, <1>7, <1>8, <1>9, <1>10, <1>11, <1>12 DEF Sane
<1>15. /\ DOMAIN t.event \subseteq DOMAIN s.event
       /\ DOMAIN s.event \ S \subseteq DOMAIN t.event
       /\ \A i \in DOMAIN t.event : t.event[i] = s.event[i]
  BY <1>2, <1>3, <1>5
<1>16. s.flip_pending \notin S => t.flip_pending = s.flip_pending BY <1>2, <1>5
<1> QED BY <1>1, <1>5, <1>13, <1>14, <1>15, <1>16

\* The fields of the state.
LEMMA StateFields ==
  /\ State.event = event /\ State.chain = chain /\ State.flip_pending = flip_pending
  /\ State.flip = flip /\ State.vblanks = vblanks /\ State.swaps = swaps
  /\ State.limit = limit
BY DEF State

\* The events of a window are no longer in a chain.
LEMMA UncoupledFacts ==
  ASSUME Sane(State, {}), Ahead(State), NEW w \in Windows
  PROVE  Sane(Uncoupled(w), {}) /\ Ahead(Uncoupled(w))
         /\ Uncoupled(w).swaps = swaps /\ Uncoupled(w).limit = limit
<1> DEFINE s == State
           S == ToSet(chain[w])
           e == [i \in DOMAIN s.event |->
                   IF Contains(chain[w], i) THEN Orphan(s.event[i]) ELSE s.event[i]]
           c == [s.chain EXCEPT ![w] = <<>>]
           t == [s EXCEPT !.chain = c, !.event = e]
<1>0. s \in DriverState /\ Chained(s) BY DEF Sane
<1>1. Uncoupled(w) = Keep(t, S) BY DEF Uncoupled
<1>2. s.event = event /\ s.chain = chain /\ s.swaps = swaps /\ s.limit = limit BY StateFields
<1>s. Sane(s, {}) /\ Ahead(s) OBVIOUS
<1> HIDE DEF s
<1>3. chain[w] \in Seq(Info) /\ Len(chain[w]) \in Nat BY <1>0, <1>2, StateTypes
<1>4. \A i : i \in S <=> In(chain[w], i) BY <1>3 DEF ToSet, In
<1>5. \A i : Contains(chain[w], i) <=> In(chain[w], i) BY DEF Contains, In
<1> HIDE DEF S
<1>6. S \subseteq DOMAIN s.event /\ \A i \in S : s.event[i].draw = w
  BY <1>0, <1>2, <1>4 DEF Chained, In
<1>7. /\ e \in EventMap /\ DOMAIN e = DOMAIN s.event
      /\ \A i \in DOMAIN s.event : e[i] = IF i \in S THEN Orphan(s.event[i]) ELSE s.event[i]
  <2>1. s.event \in EventMap BY <1>0 DEF DriverState
  <2>2. DOMAIN s.event \subseteq Info /\ \A i \in DOMAIN s.event : s.event[i] \in SnaDri2Event
    BY <2>1, EventMaps
  <2>3. DOMAIN e = DOMAIN s.event /\ e = [j \in DOMAIN e |-> e[j]] OBVIOUS
  <2>4. \A i \in DOMAIN s.event : e[i] = IF i \in S THEN Orphan(s.event[i]) ELSE s.event[i]
    BY <1>4, <1>5
  <2> HIDE DEF e
  <2>5. \A i \in DOMAIN e : e[i] \in SnaDri2Event
    <3>1. ASSUME NEW o \in SnaDri2Event PROVE Orphan(o) \in SnaDri2Event
      BY DEF Orphan, SnaDri2Event
    <3> QED BY <2>2, <2>3, <2>4, <3>1
  <2>6. e \in EventMap BY <2>2, <2>3, <2>5, EventMaps
  <2> QED BY <2>3, <2>4, <2>6
<1> HIDE DEF e
<1>8. /\ c \in [Windows -> Seq(Info)] /\ c[w] = <<>>
      /\ \A v \in Windows : v # w => c[v] = s.chain[v]
  <2>1. s.chain \in [Windows -> Seq(Info)] BY <1>0, StateTypes
  <2>2. <<>> \in Seq(Info) OBVIOUS
  <2> QED BY <2>1, <2>2
<1> HIDE DEF c
<1>9. t \in DriverState BY <1>0, <1>7, <1>8 DEF DriverState
<1>10. t.event = e /\ t.chain = c /\ t.flip = s.flip /\ t.flip_pending = s.flip_pending
       /\ t.vblanks = s.vblanks /\ t.swaps = s.swaps /\ t.limit = s.limit
  BY <1>0 DEF DriverState
<1> HIDE DEF t
<1>11. ASSUME NEW v \in Windows PROVE Thinner(t.chain[v], s.chain[v], S)
  <2>1. CASE v = w
    <3>1. t.chain[v] = <<>> /\ Len(t.chain[v]) = 0 BY <1>8, <1>10, <2>1
    <3>2. \A i : In(s.chain[v], i) => i \in S BY <1>2, <1>4, <2>1
    <3>3. t.chain[v] \in Seq(Info) BY <1>8, <1>10
    <3> QED BY <3>1, <3>2, <3>3 DEF Thinner
  <2>2. CASE v # w
    <3>1. t.chain[v] = s.chain[v] BY <1>8, <1>10, <2>2
    <3>2. \A k \in 1..Len(s.chain[v]) : s.chain[v][k] \notin S
      <4>1. ASSUME NEW k \in 1..Len(s.chain[v]) PROVE s.event[s.chain[v][k]].draw = v
        BY <1>0 DEF Chained
      <4> QED BY <1>6, <2>2, <4>1
    <3>3. s.chain[v] \in Seq(Info) BY <1>0, StateTypes
    <3>4. \A k \in 1..Len(s.chain[v]) : In(s.chain[v], s.chain[v][k]) BY DEF In
    <3> QED BY <3>1, <3>2, <3>3, <3>4 DEF Thinner
  <2> QED BY <2>1, <2>2
<1>12. Thinned(s, t, S) BY <1>8, <1>10, <1>11 DEF Thinned
<1>13. \A i \in DOMAIN s.event \cap S :
         /\ t.event[i].draw = None /\ t.event[i].after = 0
         /\ t.event[i].queued = s.event[i].queued /\ t.event[i].type = s.event[i].type
  <2>1. ASSUME NEW i \in DOMAIN s.event, i \in S
        PROVE  /\ t.event[i].draw = None /\ t.event[i].after = 0
               /\ t.event[i].queued = s.event[i].queued /\ t.event[i].type = s.event[i].type
    <3>1. t.event[i] = Orphan(s.event[i]) BY <1>7, <1>10, <2>1
    <3>2. s.event[i] \in SnaDri2Event BY <1>0, EventType
    <3>3. s.event[i].after = 0 BY <1>s DEF Sane, Owned
    <3> QED BY <3>1, <3>2, <3>3 DEF Orphan, SnaDri2Event
  <2> QED BY <2>1
<1>14. Orphaned(s, t, S) BY <1>7, <1>9, <1>10, <1>12, <1>13 DEF Orphaned
<1>15. Sane(t, {}) BY <1>s, <1>14, OrphanedSane
<1>16. Ahead(t) BY <1>s, <1>10 DEF Ahead
<1>17. S \subseteq DOMAIN t.event /\ \A i \in S : t.event[i].draw = None
  BY <1>6, <1>7, <1>10, <1>13
<1> DEFINE u == Keep(t, S)
<1>18. Sane(u, {}) /\ Ahead(u) /\ u.swaps = t.swaps /\ u.limit = t.limit
  BY <1>15, <1>16, <1>17, KeepFacts
<1> HIDE DEF u
<1>19. Uncoupled(w) = u BY <1>1 DEF u
<1> QED BY <1>2, <1>10, <1>18, <1>19

\* What is left of the chains and the events when a client goes.
GoneFrom(c) ==
  LET mine == {i \in DOMAIN event : event[i].client = c}
  IN Keep([State EXCEPT
          !.chain = [w \in Windows |-> Without(@[w], mine)],
          !.event = [i \in DOMAIN @ |->
             IF i \in mine THEN [Orphan(@[i]) EXCEPT !.client = None, !.after = After(c, i)]
             ELSE @[i]]], mine)

\* No event of the window is another client's.
LEMMA AfterNone ==
  ASSUME OneClient, Sane(State, {}), NEW c \in Clients,
         NEW i \in DOMAIN event, event[i].client = c
  PROVE  After(c, i) = 0
<1>0. Chained(State) /\ Owned(State) /\ State \in DriverState BY DEF Sane
<1>1. State.event = event /\ State.chain = chain BY StateFields
<1>2. Behind(c, i) = {}
  <2>1. CASE event[i].draw = None BY <2>1 DEF Behind
  <2>2. CASE event[i].draw # None
    <3> DEFINE w == event[i].draw
               q == chain[w]
    <3>1. <<c, w>> \in Draws BY <1>0, <1>1, <2>2 DEF Owned
    <3>2. w \in Windows BY <3>1, BoundsAssumption
    <3> HIDE DEF w
    <3>3. q \in Seq(Info) BY <1>0, <1>1, <3>2, StateTypes
    <3>4. \A k \in 1..Len(q) : q[k] \in DOMAIN event /\ event[q[k]].draw = w
      BY <1>0, <1>1, <3>2 DEF Chained
    <3>n. w # None BY <3>2, BoundsAssumption
    <3>5. \A k \in 1..Len(q) : <<event[q[k]].client, w>> \in Draws
      <4>1. ASSUME NEW k \in 1..Len(q) PROVE <<event[q[k]].client, w>> \in Draws
        <5>1. q[k] \in DOMAIN event /\ event[q[k]].draw = w BY <3>4
        <5> QED BY <1>0, <1>1, <3>n, <5>1 DEF Owned
      <4> QED BY <4>1
    <3>6. \A k \in 1..Len(q) : event[q[k]].client = c
      <4>1. ASSUME NEW k \in 1..Len(q) PROVE event[q[k]].client = c
        <5>1. <<event[q[k]].client, w>> \in Draws BY <3>5
        <5>2. event[q[k]].client \in Clients BY <5>1, BoundsAssumption
        <5> QED BY <3>1, <3>2, <5>1, <5>2 DEF OneClient
      <4> QED BY <4>1
    <3>7. DOMAIN q = 1..Len(q) BY <3>3
    <3>8. Behind(c, i) = {k \in DOMAIN q : event[q[k]].client # c /\ \E j \in 1..(k - 1) : q[j] = i}
      BY <2>2 DEF Behind, w
    <3> QED BY <3>6, <3>7, <3>8
  <2> QED BY <2>1, <2>2
<1> QED BY <1>2 DEF After

\* The driver when a client goes.
LEMMA GoneFacts ==
  ASSUME OneClient, Sane(State, {}), Ahead(State), NEW c \in Clients
  PROVE  LET mine == {i \in DOMAIN event : event[i].client = c}
         IN  /\ Sane(GoneFrom(c), {}) /\ Ahead(GoneFrom(c))
             /\ GoneFrom(c).swaps = swaps /\ GoneFrom(c).limit = limit
             /\ mine = {} => /\ Thinned(State, GoneFrom(c), {})
                             /\ DOMAIN GoneFrom(c).event = DOMAIN event
                             /\ \A i \in DOMAIN event : GoneFrom(c).event[i] = event[i]
                             /\ GoneFrom(c).flip = flip
                             /\ GoneFrom(c).flip_pending = flip_pending
<1> DEFINE s == State
           S == {i \in DOMAIN event : event[i].client = c}
           new(i) == [Orphan(s.event[i]) EXCEPT !.client = None, !.after = After(c, i)]
           e == [i \in DOMAIN s.event |-> IF i \in S THEN new(i) ELSE s.event[i]]
           r == [w \in Windows |-> Without(s.chain[w], S)]
           t == [s EXCEPT !.chain = r, !.event = e]
<1>0. s \in DriverState /\ Chained(s) BY DEF Sane
<1>1. GoneFrom(c) = Keep(t, S) BY <1>0 DEF GoneFrom, DriverState
<1>2. s.event = event /\ s.chain = chain /\ s.swaps = swaps /\ s.limit = limit
      /\ s.flip = flip /\ s.flip_pending = flip_pending
  BY StateFields
<1>s. Sane(s, {}) /\ Ahead(s) OBVIOUS
<1> HIDE DEF s
<1>3. S \subseteq DOMAIN s.event /\ \A i \in S : event[i].client = c BY <1>2
<1> HIDE DEF S
<1>4. ASSUME NEW i \in S
      PROVE  /\ new(i) \in SnaDri2Event /\ new(i).draw = None /\ new(i).after = 0
             /\ new(i).queued = s.event[i].queued /\ new(i).type = s.event[i].type
  <2>1. s.event[i] \in SnaDri2Event BY <1>0, <1>3, EventType
  <2>2. After(c, i) = 0 BY <1>2, <1>3, AfterNone
  <2>3. 0 \in 0..Events BY BoundsAssumption
  <2> QED BY <2>1, <2>2, <2>3 DEF Orphan, SnaDri2Event
<1> HIDE DEF new
<1>5. /\ e \in EventMap /\ DOMAIN e = DOMAIN s.event
      /\ \A i \in DOMAIN s.event : e[i] = IF i \in S THEN new(i) ELSE s.event[i]
  <2>1. s.event \in EventMap BY <1>0 DEF DriverState
  <2>2. DOMAIN s.event \subseteq Info /\ \A i \in DOMAIN s.event : s.event[i] \in SnaDri2Event
    BY <2>1, EventMaps
  <2>3. DOMAIN e = DOMAIN s.event /\ e = [j \in DOMAIN e |-> e[j]]
        /\ \A i \in DOMAIN s.event : e[i] = IF i \in S THEN new(i) ELSE s.event[i]
    OBVIOUS
  <2> HIDE DEF e
  <2>5. \A i \in DOMAIN e : e[i] \in SnaDri2Event BY <1>4, <2>2, <2>3
  <2>6. e \in EventMap BY <2>2, <2>3, <2>5, EventMaps
  <2> QED BY <2>3, <2>6
<1> HIDE DEF e
<1>6. \A w \in Windows : Thinner(r[w], s.chain[w], S)
  <2>1. ASSUME NEW w \in Windows PROVE Thinner(Without(s.chain[w], S), s.chain[w], S)
    <3>1. s.chain[w] \in Seq(Info) BY <1>0, StateTypes
    <3> QED BY <3>1, WithoutThinner
  <2> QED BY <2>1
<1>7. r \in [Windows -> Seq(Info)]
  <2>1. \A w \in Windows : r[w] \in Seq(Info) BY <1>6 DEF Thinner
  <2> QED BY <2>1
<1> HIDE DEF r
<1>8. t \in DriverState BY <1>0, <1>5, <1>7 DEF DriverState
<1>9. t.event = e /\ t.chain = r /\ t.flip = s.flip /\ t.flip_pending = s.flip_pending
      /\ t.vblanks = s.vblanks /\ t.swaps = s.swaps /\ t.limit = s.limit
  BY <1>0 DEF DriverState
<1> HIDE DEF t
<1>10. Thinned(s, t, S) BY <1>6, <1>7, <1>9 DEF Thinned
<1>11. Orphaned(s, t, S) BY <1>4, <1>5, <1>8, <1>9, <1>10 DEF Orphaned
<1>12. Sane(t, {}) BY <1>s, <1>11, OrphanedSane
<1>13. Ahead(t) BY <1>s, <1>9 DEF Ahead
<1>14. S \subseteq DOMAIN t.event /\ \A i \in S : t.event[i].draw = None
  BY <1>3, <1>4, <1>5, <1>9
<1> DEFINE u == Keep(t, S)
<1>15. /\ Sane(u, {}) /\ Ahead(u) /\ u.swaps = t.swaps /\ u.limit = t.limit
       /\ DOMAIN u.event \subseteq DOMAIN t.event /\ DOMAIN t.event \ S \subseteq DOMAIN u.event
       /\ \A i \in DOMAIN u.event : u.event[i] = t.event[i]
       /\ u.chain = t.chain /\ u.flip = t.flip
       /\ t.flip_pending \notin S => u.flip_pending = t.flip_pending
  BY <1>12, <1>13, <1>14, KeepFacts
<1> HIDE DEF u
<1>16. GoneFrom(c) = u BY <1>1 DEF u
<1>17. ASSUME S = {}
       PROVE  /\ Thinned(State, u, {}) /\ DOMAIN u.event = DOMAIN event
              /\ \A i \in DOMAIN event : u.event[i] = event[i]
              /\ u.flip = flip /\ u.flip_pending = flip_pending
  <2>1. Thinned(s, u, S) BY <1>10, <1>15, ThinnedSame
  <2>2. Thinned(State, u, {}) BY <1>17, <2>1 DEF s
  <2> QED BY <1>2, <1>5, <1>9, <1>15, <1>17, <2>2
<1>18. S = {i \in DOMAIN event : event[i].client = c} BY DEF S
<1> QED BY <1>2, <1>9, <1>15, <1>16, <1>17, <1>18

-----------------------------------------------------------------------------
(* The invariant, and the states that the handlers lead to.                  *)

\* The display, the server and the world.
Around ==
  /\ on \in BOOLEAN /\ top \in Windows \cup {None}
  /\ blocked \subseteq Clients \X Windows /\ gone \subseteq Clients \cup Windows
  /\ world \in Worlds
Driven == Sane(State, {}) /\ Ahead(State)
Inv == Around /\ Driven

\* The state that a handler leads to.
LEMMA Becomes ==
  ASSUME NEW t \in DriverState, Become(t) PROVE State' = t
BY DEF Become, State, DriverState

\* A sane state, ahead.
Fine(t) == Become(t) /\ Sane(t, {}) /\ Ahead(t)
LEMMA FineDriven == ASSUME NEW t, Fine(t) PROVE Driven'
<1>1. State' = t BY Becomes DEF Fine, Sane
<1>2. Sane(State', {}) /\ Ahead(State') BY <1>1 DEF Fine
<1> QED BY <1>2 DEF Driven

\* One event becomes o.
Changed(s, t, i, o) ==
  /\ i \in DOMAIN s.event /\ Others(s, t, i) /\ t.event[i] = o /\ t.chain = s.chain
\* An event o is new.
Added(s, t, i, o) ==
  /\ i \in Info /\ i \notin DOMAIN s.event /\ DOMAIN t.event = DOMAIN s.event \cup {i}
  /\ t.event[i] = o /\ \A j \in DOMAIN s.event : t.event[j] = s.event[j]
  /\ \A j : IsBehind(t, j) => IsBehind(s, j) \/ j = i
\* The flips and the limits are the same.
Unmoved(s, t) ==
  t.flip = s.flip /\ t.flip_pending = s.flip_pending /\ t.limit = s.limit

\* A handler ends after a change of its event.
LEMMA FinishedFrom ==
  ASSUME NEW s, NEW r, NEW t, NEW i, NEW o, NEW m, Changed(s, r, i, o), Finished(r, t, i, m)
  PROVE  Finished(s, t, i, m)
<1>1. DOMAIN r.event = DOMAIN s.event /\ r.chain = s.chain
      /\ \A j \in DOMAIN s.event \ {i} : r.event[j] = s.event[j]
  BY DEF Changed, Others
<1>2. \A S : Thinned(r, t, S) => Thinned(s, t, S) BY <1>1 DEF Thinned
<1>3. Freed(r, t, i, m) => Freed(s, t, i, m) BY <1>1, <1>2 DEF Freed
<1>4. \A n : Startable(r, i, n) => Startable(s, i, n) BY <1>1 DEF Startable, IsBehind
<1>5. \A n : Startable(r, i, n) => n \in DOMAIN s.event \ {i} BY <1>1 DEF Startable
<1>6. ASSUME NEW n, FreedBegun(r, t, i, n, m) PROVE FreedBegun(s, t, i, n, m)
  <2>1. r.event[n] = s.event[n] BY <1>1, <1>5, <1>6 DEF FreedBegun
  <2> QED BY <1>1, <1>2, <1>4, <1>6, <2>1 DEF FreedBegun
<1>7. ASSUME NEW n, FreedBoth(r, t, i, n, m) PROVE FreedBoth(s, t, i, n, m)
  <2>1. r.event[n] = s.event[n] BY <1>1, <1>5, <1>7 DEF FreedBoth
  <2> QED BY <1>1, <1>2, <1>4, <1>7, <2>1 DEF FreedBoth
<1> QED BY <1>3, <1>6, <1>7 DEF Finished

-----------------------------------------------------------------------------
(* The handlers of vblanks and flips.                                        *)

\* The event of an orphan.
LEMMA GoneStep ==
  ASSUME Driven, NEW i \in Info, VblankGone(i) PROVE \E t : Fine(t)
<1> DEFINE s == Sent(i)
           t == Free(s, i)
           N == {}
<1>1. Become(t) BY DEF VblankGone
<1>n. N \ {i} = N BY DEF N
<1>2. /\ Sane(s, {}) /\ i \in DOMAIN event /\ s.event[i] = [event[i] EXCEPT !.queued = FALSE]
      /\ Others(State, s, i) /\ s.flip = flip /\ s.flip_pending = flip_pending
  BY SentFacts DEF VblankGone, Driven
<1>3. i \in DOMAIN s.event BY <1>2, StateFields DEF Others
<1>4. State \in DriverState /\ Sane(s, N) BY <1>2 DEF Driven, Sane, N
<1> HIDE DEF s, N
<1>5. ~s.event[i].queued
  <2>1. event[i] \in SnaDri2Event BY <1>2, <1>4, StateFields, EventType
  <2> QED BY <1>2, <2>1 DEF SnaDri2Event
<1>6. IsFreed(s, t, N, i) BY <1>3, <1>4, <1>5, FreeFacts
<1> HIDE DEF t
<1>7. Sane(t, N) /\ Ahead(t) BY <1>2, <1>6, <1>n, StateFields DEF IsFreed, Driven, Ahead
<1>8. Fine(t) BY <1>1, <1>7 DEF Fine, N
<1> QED BY <1>8

\* How a swap that is due goes on.
SwapTurns(i, t) ==
  \/ /\ event[i].type = "FLIP" /\ flip = 0
     /\ Changed(State, t, i, event[i])
     /\ t.flip = i /\ t.flip_pending = i /\ t.swaps = swaps /\ t.limit = limit
  \/ /\ Changed(State, t, i, [event[i] EXCEPT !.type = "SWAP_COMPLETE"])
     /\ Unmoved(State, t) /\ t.swaps = swaps
  \/ /\ Finished(State, t, i, IF event[i].client = None THEN swaps
                               ELSE [swaps EXCEPT ![event[i].draw] = @ - 1])
     /\ Unmoved(State, t)

\* The event of a swap.
LEMMA SwapStep ==
  ASSUME Driven, NEW i \in Info, VblankSwap(i) PROVE \E t : Fine(t) /\ SwapTurns(i, t)
<1> DEFINE s == Sent(i)
<1>0. i \in vblanks /\ event[i].draw # None /\ event[i].type \in {"FLIP", "SWAP"}
  BY DEF VblankSwap, Vblank
<1>1. PICK flipped \in BOOLEAN :
       /\ Tries(event[i].type = "FLIP" /\ MayFlip(State, event[i].draw), flipped)
       /\ Become(IF flipped THEN Flip(s, i)
                 ELSE IF on THEN WaitVblank(Blit(s, i), i)
                 ELSE Finish(Complete(s, i), i))
  BY DEF VblankSwap
<1>2. /\ Sane(s, {}) /\ i \in DOMAIN event /\ event[i].queued
      /\ s.event[i] = [event[i] EXCEPT !.queued = FALSE]
      /\ Others(State, s, i) /\ s.flip = flip /\ s.flip_pending = flip_pending
      /\ i # flip /\ i # flip_pending /\ s.swaps = swaps /\ s.limit = limit /\ s.chain = chain
  BY <1>0, SentFacts DEF Driven
<1> HIDE DEF s
<1>3. /\ State \in DriverState /\ s \in DriverState /\ i \in DOMAIN s.event
      /\ DOMAIN s.event = DOMAIN event
      /\ \A j \in DOMAIN event \ {i} : s.event[j] = event[j]
  BY <1>2, StateFields DEF Driven, Sane, Others
<1>4. event[i] \in SnaDri2Event BY <1>2, <1>3, StateFields, EventType
<1>5. ~s.event[i].queued /\ s.event[i].type = event[i].type /\ s.event[i].draw = event[i].draw
      /\ s.event[i].client = event[i].client
  BY <1>2, <1>4 DEF SnaDri2Event
<1>6. CASE flipped
  <2> DEFINE t == Flip(s, i)
  <2>1. Become(t) BY <1>1, <1>6
  <2>2. event[i].type = "FLIP" /\ flip = 0 BY <1>1, <1>6, StateFields DEF Tries, MayFlip
  <2>3. s.flip = 0 /\ s.event[i].type # "SWAP_COMPLETE" BY <1>2, <1>5, <2>2
  <2>4. /\ Sane(t, {}) /\ Ahead(t) /\ t.event[i] = [s.event[i] EXCEPT !.queued = TRUE]
        /\ Others(s, t, i) /\ t.chain = s.chain /\ t.flip = i /\ t.flip_pending = i
        /\ t.swaps = s.swaps /\ t.limit = s.limit
    <3> DEFINE N == {}
    <3>1. Sane(s, N) BY <1>2
    <3> HIDE DEF N
    <3>2. /\ Sane(t, N) /\ Ahead(t) /\ t.event[i] = [s.event[i] EXCEPT !.queued = TRUE]
          /\ Others(s, t, i) /\ t.chain = s.chain /\ t.flip = i /\ t.flip_pending = i
          /\ t.swaps = s.swaps /\ t.limit = s.limit
      BY <1>3, <1>5, <2>3, <3>1, FlipFacts
    <3> QED BY <3>2 DEF N
  <2> HIDE DEF t
  <2>5. t.event[i] = event[i]
    <3>1. [[event[i] EXCEPT !.queued = FALSE] EXCEPT !.queued = TRUE] = event[i]
      BY <1>2, <1>4, Requeued, Zenon
    <3> QED BY <1>2, <2>4, <3>1, SMTT(30)
  <2>6. Changed(State, t, i, event[i])
    BY <1>2, <1>3, <2>4, <2>5, StateFields DEF Changed, Others
  <2>7. SwapTurns(i, t) BY <1>2, <2>2, <2>4, <2>6 DEF SwapTurns
  <2>8. Fine(t) BY <2>1, <2>4 DEF Fine
  <2> QED BY <2>7, <2>8
<1>7. CASE ~flipped /\ on
  <2> DEFINE b == Blit(s, i)
             t == WaitVblank(b, i)
  <2>1. Become(t) BY <1>1, <1>7
  <2>2. /\ Soft(s, b) /\ Others(s, b, i) /\ b.limit = s.limit /\ b.swaps = s.swaps
        /\ b.event[i] = [s.event[i] EXCEPT !.type = "SWAP_COMPLETE"]
    BY <1>2, <1>3, BlitFacts, ZenonT(60)
  <2> HIDE DEF b
  <2>3. Sane(b, {}) BY <1>2, <2>2, SoftSane
  <2>4. /\ i \in DOMAIN b.event /\ i # b.flip /\ i # b.flip_pending /\ b.chain = s.chain
        /\ b.flip = s.flip /\ b.flip_pending = s.flip_pending
    BY <1>2, <1>3, <2>2 DEF Soft, Same
  <2>5. /\ Sane(t, {}) /\ t.event[i] = [b.event[i] EXCEPT !.queued = TRUE] /\ Others(b, t, i)
        /\ t.chain = b.chain /\ t.flip = b.flip /\ t.flip_pending = b.flip_pending
        /\ t.swaps = b.swaps /\ t.limit = b.limit
    BY <2>3, <2>4, VblankFacts
  <2> HIDE DEF t
  <2>6. t.event[i] = [event[i] EXCEPT !.type = "SWAP_COMPLETE"]
    <3>2. [[[event[i] EXCEPT !.queued = FALSE] EXCEPT !.type = "SWAP_COMPLETE"] EXCEPT !.queued = TRUE]
            = [event[i] EXCEPT !.type = "SWAP_COMPLETE"]
      BY <1>2, <1>4, Requeued, Zenon
    <3>3. b.event[i] = [[event[i] EXCEPT !.queued = FALSE] EXCEPT !.type = "SWAP_COMPLETE"]
      BY <1>2, <2>2
    <3>4. t.event[i] = [b.event[i] EXCEPT !.queued = TRUE] BY <2>5
    <3> QED BY <3>2, <3>3, <3>4, SMTT(30)
  <2>7. Changed(State, t, i, [event[i] EXCEPT !.type = "SWAP_COMPLETE"])
    BY <1>2, <1>3, <2>2, <2>4, <2>5, <2>6, StateFields DEF Changed, Others
  <2>8. Unmoved(State, t) /\ t.swaps = swaps
    BY <1>2, <2>2, <2>4, <2>5, StateFields DEF Unmoved
  <2>9. SwapTurns(i, t) BY <2>7, <2>8 DEF SwapTurns
  <2>10. Ahead(t) BY <1>2, <2>4, <2>5, StateFields DEF Driven, Ahead
  <2>11. Fine(t) BY <2>1, <2>5, <2>10 DEF Fine
  <2> QED BY <2>9, <2>11
<1>8. CASE ~flipped /\ ~on
  <2> DEFINE r == Complete(s, i)
             t == Finish(r, i)
             m == IF event[i].client = None THEN swaps
                  ELSE [swaps EXCEPT ![event[i].draw] = @ - 1]
  <2>1. Become(t) BY <1>1, <1>8
  <2>2. /\ Soft(s, r) /\ Others(s, r, i) /\ r.limit = s.limit
        /\ r.event[i] = [s.event[i] EXCEPT !.signal = FALSE]
        /\ r.swaps = IF s.event[i].client = None THEN s.swaps
                     ELSE [s.swaps EXCEPT ![s.event[i].draw] = @ - 1]
    BY <1>3, CompleteFacts
  <2> HIDE DEF r
  <2>3. Sane(r, {}) BY <1>2, <2>2, SoftSane
  <2>4. /\ i \in DOMAIN r.event /\ ~r.event[i].queued /\ r.chain = s.chain
        /\ r.flip = s.flip /\ r.flip_pending = s.flip_pending
    BY <1>3, <1>5, <2>2 DEF Soft, Same
  <2>5. /\ Sane(t, {}) /\ Finished(r, t, i, r.swaps)
        /\ t.flip_pending = (IF r.flip_pending = i THEN 0 ELSE r.flip_pending)
        /\ t.flip = r.flip /\ t.limit = r.limit
    BY <2>3, <2>4, FinishFacts
  <2> HIDE DEF t
  <2>6. r.swaps = m BY <1>2, <1>5, <2>2
  <2>7. Changed(State, r, i, r.event[i])
    BY <1>2, <1>3, <2>2, <2>4, StateFields DEF Changed, Others
  <2>8. Finished(State, t, i, m) BY <2>5, <2>6, <2>7, FinishedFrom
  <2>9. Unmoved(State, t) BY <1>2, <2>2, <2>4, <2>5, StateFields DEF Unmoved
  <2>10. SwapTurns(i, t) BY <2>8, <2>9 DEF SwapTurns
  <2>11. Ahead(t) BY <1>2, <2>4, <2>5, StateFields DEF Driven, Ahead
  <2>12. Fine(t) BY <2>1, <2>5, <2>11 DEF Fine
  <2> QED BY <2>10, <2>12
<1> QED BY <1>6, <1>7, <1>8

\* The counts after a completion that may have been told before.
Counted(i) ==
  IF ~event[i].signal \/ event[i].client = None THEN swaps
  ELSE [swaps EXCEPT ![event[i].draw] = @ - 1]

\* How a blit that is complete goes on.
CompleteTurns(i, t) ==
  \/ /\ ~event[i].pending /\ Finished(State, t, i, Counted(i)) /\ Unmoved(State, t)
  \/ /\ event[i].pending
     /\ Changed(State, t, i, [event[i] EXCEPT !.signal = TRUE, !.pending = FALSE])
     /\ Unmoved(State, t) /\ t.swaps = Counted(i)
  \/ /\ event[i].pending
     /\ Finished(State, t, i, IF event[i].client = None THEN Counted(i)
                              ELSE [Counted(i) EXCEPT ![event[i].draw] = @ - 1])
     /\ Unmoved(State, t)

\* The event of a blit.
LEMMA CompleteStep ==
  ASSUME Driven, NEW i \in Info, VblankComplete(i) PROVE \E t : Fine(t) /\ CompleteTurns(i, t)
<1> DEFINE q == Sent(i)
           s == CompleteSignal(q, i)
           again == [s EXCEPT !.event[i] = [@ EXCEPT !.pending = FALSE, !.signal = TRUE]]
<1>0. i \in vblanks /\ event[i].draw # None BY DEF VblankComplete, Vblank
<1>1. Become(IF ~event[i].pending THEN Finish(s, i)
               ELSE IF on THEN WaitVblank(again, i)
               ELSE Finish(Complete(again, i), i))
  BY DEF VblankComplete
<1>2. /\ Sane(q, {}) /\ i \in DOMAIN event /\ event[i].queued
      /\ q.event[i] = [event[i] EXCEPT !.queued = FALSE]
      /\ Others(State, q, i) /\ q.flip = flip /\ q.flip_pending = flip_pending
      /\ i # flip /\ i # flip_pending /\ q.swaps = swaps /\ q.limit = limit /\ q.chain = chain
  BY <1>0, SentFacts DEF Driven
<1> HIDE DEF q
<1>3. /\ State \in DriverState /\ q \in DriverState /\ i \in DOMAIN q.event
      /\ DOMAIN q.event = DOMAIN event
      /\ \A j \in DOMAIN event \ {i} : q.event[j] = event[j]
  BY <1>2, StateFields DEF Driven, Sane, Others
<1>4. event[i] \in SnaDri2Event BY <1>2, <1>3, StateFields, EventType
<1>5. ~q.event[i].queued /\ q.event[i].draw = event[i].draw
      /\ q.event[i].client = event[i].client /\ q.event[i].signal = event[i].signal
  BY <1>2, <1>4 DEF SnaDri2Event
<1>6. /\ Soft(q, s) /\ Others(q, s, i) /\ s.limit = q.limit
      /\ s.event[i] = [q.event[i] EXCEPT !.signal = FALSE]
      /\ s.swaps = IF ~q.event[i].signal \/ q.event[i].client = None THEN q.swaps
                   ELSE [q.swaps EXCEPT ![q.event[i].draw] = @ - 1]
  BY <1>3, SignalFacts
<1> HIDE DEF s
<1>7. Sane(s, {}) BY <1>2, <1>6, SoftSane
<1>8. /\ s \in DriverState /\ DOMAIN s.event = DOMAIN event
      /\ \A j \in DOMAIN event \ {i} : s.event[j] = event[j]
      /\ s.event[i] = [event[i] EXCEPT !.queued = FALSE, !.signal = FALSE]
      /\ s.chain = chain /\ s.flip = flip /\ s.flip_pending = flip_pending
      /\ s.limit = limit /\ s.swaps = Counted(i)
  BY <1>2, <1>3, <1>4, <1>5, <1>6 DEF Soft, Same, Others, Counted, SnaDri2Event
<1>9. i \in DOMAIN s.event /\ ~s.event[i].queued BY <1>2, <1>4, <1>8 DEF SnaDri2Event
<1>10. CASE ~event[i].pending
  <2> DEFINE t == Finish(s, i)
  <2>1. Become(t) BY <1>1, <1>10
  <2>2. /\ Sane(t, {}) /\ Finished(s, t, i, s.swaps)
        /\ t.flip_pending = (IF s.flip_pending = i THEN 0 ELSE s.flip_pending)
        /\ t.flip = s.flip /\ t.limit = s.limit
    BY <1>7, <1>9, FinishFacts
  <2> HIDE DEF t
  <2>3. Changed(State, s, i, s.event[i]) BY <1>2, <1>8, StateFields DEF Changed, Others
  <2>4. Finished(State, t, i, Counted(i)) BY <1>8, <2>2, <2>3, FinishedFrom
  <2>5. Unmoved(State, t) BY <1>2, <1>8, <2>2, StateFields DEF Unmoved
  <2>6. CompleteTurns(i, t) BY <1>10, <2>4, <2>5 DEF CompleteTurns
  <2>7. Ahead(t) BY <1>2, <1>8, <2>2, StateFields DEF Driven, Ahead
  <2>8. Fine(t) BY <2>1, <2>2, <2>7 DEF Fine
  <2> QED BY <2>6, <2>8
<1>11. CASE event[i].pending
  <2> DEFINE o == [s.event[i] EXCEPT !.pending = FALSE, !.signal = TRUE]
             a == With(s, i, o)
  <2>0. s.event[i] \in SnaDri2Event BY <1>8, <1>9, EventType
  <2>1. o \in SnaDri2Event /\ o.draw = s.event[i].draw /\ o.client = s.event[i].client
        /\ o.after = s.event[i].after /\ o.queued = s.event[i].queued /\ o.type = s.event[i].type
    BY <2>0 DEF SnaDri2Event
  <2>2. again = a BY DEF With
  <2>3. o = [event[i] EXCEPT !.queued = FALSE, !.signal = TRUE, !.pending = FALSE]
    BY <1>4, <1>8 DEF SnaDri2Event
  <2>4. ~o.queued BY <1>9, <2>1
  <2> HIDE DEF o
  <2>5. /\ a.event[i] = o /\ Others(s, a, i) /\ a.swaps = s.swaps /\ a.limit = s.limit
    BY <1>8, <1>9, <2>1, WithFacts
  <2>6. Soft(s, a) BY <1>8, <1>9, <2>1, SoftWith
  <2>c. again = a BY <2>2
  <2> HIDE DEF a, again
  <2>7. Sane(a, {}) BY <1>7, <2>6, SoftSane
  <2>8. /\ a \in DriverState /\ DOMAIN a.event = DOMAIN event /\ i \in DOMAIN a.event
        /\ \A j \in DOMAIN event \ {i} : a.event[j] = event[j]
        /\ a.chain = chain /\ a.flip = flip /\ a.flip_pending = flip_pending
        /\ a.limit = limit /\ a.swaps = Counted(i)
    BY <1>2, <1>8, <2>5, <2>6 DEF Soft, Same, Others
  <2>9. CASE on
    <3> DEFINE t == WaitVblank(a, i)
    <3>1. Become(t) BY <1>1, <1>11, <2>9, <2>c
    <3>2. /\ Sane(t, {}) /\ t.event[i] = [a.event[i] EXCEPT !.queued = TRUE] /\ Others(a, t, i)
          /\ t.chain = a.chain /\ t.flip = a.flip /\ t.flip_pending = a.flip_pending
          /\ t.swaps = a.swaps /\ t.limit = a.limit
      BY <1>2, <2>7, <2>8, VblankFacts
    <3> HIDE DEF t
    <3>3. t.event[i] = [event[i] EXCEPT !.signal = TRUE, !.pending = FALSE]
      <4>2. [[event[i] EXCEPT !.queued = FALSE, !.signal = TRUE, !.pending = FALSE] EXCEPT !.queued = TRUE]
              = [event[i] EXCEPT !.signal = TRUE, !.pending = FALSE]
        BY <1>2, <1>4, Requeued, Zenon
      <4>3. t.event[i] = [a.event[i] EXCEPT !.queued = TRUE] BY <3>2
      <4> QED BY <2>3, <2>5, <4>2, <4>3, SMTT(30)
    <3>4. Changed(State, t, i, [event[i] EXCEPT !.signal = TRUE, !.pending = FALSE])
      BY <1>2, <2>8, <3>2, <3>3, StateFields DEF Changed, Others
    <3>5. Unmoved(State, t) /\ t.swaps = Counted(i) BY <2>8, <3>2, StateFields DEF Unmoved
    <3>6. CompleteTurns(i, t) BY <1>11, <3>4, <3>5 DEF CompleteTurns
    <3>7. Ahead(t) BY <2>8, <3>2, StateFields DEF Driven, Ahead
    <3>8. Fine(t) BY <3>1, <3>2, <3>7 DEF Fine
    <3> QED BY <3>6, <3>8
  <2>10. CASE ~on
    <3> DEFINE r == Complete(a, i)
               t == Finish(r, i)
               m == IF event[i].client = None THEN Counted(i)
                    ELSE [Counted(i) EXCEPT ![event[i].draw] = @ - 1]
    <3>1. Become(t) BY <1>1, <1>11, <2>10, <2>c
    <3>2. /\ Soft(a, r) /\ Others(a, r, i) /\ r.limit = a.limit
          /\ r.event[i] = [a.event[i] EXCEPT !.signal = FALSE]
          /\ r.swaps = IF a.event[i].client = None THEN a.swaps
                       ELSE [a.swaps EXCEPT ![a.event[i].draw] = @ - 1]
      BY <2>8, CompleteFacts
    <3> HIDE DEF r
    <3>3. Sane(r, {}) BY <2>7, <3>2, SoftSane
    <3>4. /\ DOMAIN r.event = DOMAIN event /\ ~r.event[i].queued /\ r.chain = chain
          /\ r.flip = flip /\ r.flip_pending = flip_pending
          /\ \A j \in DOMAIN event \ {i} : r.event[j] = event[j]
      BY <1>2, <2>4, <2>5, <2>8, <3>2 DEF Soft, Same, Others
    <3>5. /\ Sane(t, {}) /\ Finished(r, t, i, r.swaps)
          /\ t.flip_pending = (IF r.flip_pending = i THEN 0 ELSE r.flip_pending)
          /\ t.flip = r.flip /\ t.limit = r.limit
      BY <1>2, <3>3, <3>4, FinishFacts
    <3> HIDE DEF t
    <3>6. r.swaps = m
      <4>1. a.event[i].client = event[i].client /\ a.event[i].draw = event[i].draw
        BY <1>4, <2>3, <2>5 DEF SnaDri2Event
      <4> QED BY <2>8, <3>2, <4>1
    <3>7. Changed(State, r, i, r.event[i])
      BY <1>2, <3>4, StateFields DEF Changed, Others
    <3>8. Finished(State, t, i, m) BY <3>5, <3>6, <3>7, FinishedFrom
    <3>9. Unmoved(State, t) BY <1>2, <2>8, <3>2, <3>4, <3>5, StateFields DEF Unmoved
    <3>10. CompleteTurns(i, t) BY <1>11, <3>8, <3>9 DEF CompleteTurns
    <3>11. Ahead(t) BY <1>2, <3>4, <3>5, StateFields DEF Driven, Ahead
    <3>12. Fine(t) BY <3>1, <3>5, <3>11 DEF Fine
    <3> QED BY <3>10, <3>12
  <2> QED BY <2>9, <2>10
<1> QED BY <1>10, <1>11

\* The event of a WaitMSC.
LEMMA MscStep ==
  ASSUME Driven, NEW i \in Info, VblankMsc(i)
  PROVE  \E t : Fine(t) /\ Finished(State, t, i, swaps) /\ Unmoved(State, t)
<1> DEFINE s == Sent(i)
           t == Finish(s, i)
<1>0. i \in vblanks /\ Become(t) BY DEF VblankMsc, Vblank
<1>2. /\ Sane(s, {}) /\ i \in DOMAIN event
      /\ s.event[i] = [event[i] EXCEPT !.queued = FALSE]
      /\ Others(State, s, i) /\ s.flip = flip /\ s.flip_pending = flip_pending
      /\ i # flip /\ i # flip_pending /\ s.swaps = swaps /\ s.limit = limit /\ s.chain = chain
  BY <1>0, SentFacts DEF Driven
<1> HIDE DEF s
<1>3. State \in DriverState /\ i \in DOMAIN s.event
  BY <1>2, StateFields DEF Driven, Sane, Others
<1>4. event[i] \in SnaDri2Event BY <1>2, <1>3, StateFields, EventType
<1>5. ~s.event[i].queued BY <1>2, <1>4 DEF SnaDri2Event
<1>6. /\ Sane(t, {}) /\ Finished(s, t, i, s.swaps)
      /\ t.flip_pending = (IF s.flip_pending = i THEN 0 ELSE s.flip_pending)
      /\ t.flip = s.flip /\ t.limit = s.limit
  BY <1>2, <1>3, <1>5, FinishFacts
<1> HIDE DEF t
<1>7. Changed(State, s, i, s.event[i]) BY <1>2, <1>3, StateFields DEF Changed, Others
<1>8. Finished(State, t, i, swaps) BY <1>2, <1>6, <1>7, FinishedFrom
<1>9. Unmoved(State, t) BY <1>2, <1>6, StateFields DEF Unmoved
<1>10. Ahead(t) BY <1>2, <1>6, StateFields DEF Driven, Ahead
<1>11. Fine(t) BY <1>0, <1>6, <1>10 DEF Fine
<1> QED BY <1>8, <1>9, <1>11

\* The flip that is complete, as every handler of flips begins.
LEMMA FlipDone ==
  ASSUME Driven, NEW i \in Info, flip = i
  PROVE  LET s == CompleteSignal(Flipped(i), i)
         IN  /\ Sane(s, {}) /\ i \in DOMAIN event /\ event[i] \in SnaDri2Event /\ event[i].queued
             /\ Changed(State, s, i, [event[i] EXCEPT !.queued = FALSE, !.signal = FALSE])
             /\ ~s.event[i].queued /\ s.swaps = Counted(i) /\ s.limit = limit
             /\ s.flip = 0 /\ s.flip_pending = IF flip_pending = i THEN 0 ELSE flip_pending
<1> DEFINE q == Flipped(i)
           s == CompleteSignal(q, i)
<1>1. /\ Sane(q, {}) /\ i \in DOMAIN event /\ event[i].queued
      /\ q.event[i] = [event[i] EXCEPT !.queued = FALSE]
      /\ Others(State, q, i) /\ q.chain = chain /\ q.flip = 0
      /\ q.flip_pending = (IF flip_pending = i THEN 0 ELSE flip_pending)
      /\ q.swaps = swaps /\ q.limit = limit
  BY FlippedFacts DEF Driven
<1> HIDE DEF q
<1>2. State \in DriverState /\ q \in DriverState /\ i \in DOMAIN q.event
  BY <1>1, StateFields DEF Driven, Sane, Others
<1>3. event[i] \in SnaDri2Event BY <1>1, <1>2, StateFields, EventType
<1>4. /\ q.event[i].draw = event[i].draw /\ q.event[i].client = event[i].client
      /\ q.event[i].signal = event[i].signal
  BY <1>1, <1>3 DEF SnaDri2Event
<1>5. /\ Soft(q, s) /\ Others(q, s, i) /\ s.limit = q.limit
      /\ s.event[i] = [q.event[i] EXCEPT !.signal = FALSE]
      /\ s.swaps = IF ~q.event[i].signal \/ q.event[i].client = None THEN q.swaps
                   ELSE [q.swaps EXCEPT ![q.event[i].draw] = @ - 1]
  BY <1>2, SignalFacts
<1> HIDE DEF s
<1>6. Sane(s, {}) BY <1>1, <1>5, SoftSane
<1>7. s.event[i] = [event[i] EXCEPT !.queued = FALSE, !.signal = FALSE]
  BY <1>1, <1>3, <1>5 DEF SnaDri2Event
<1>8. s.chain = chain /\ s.flip = 0 /\ s.flip_pending = (IF flip_pending = i THEN 0 ELSE flip_pending)
  BY <1>1, <1>5 DEF Soft, Same
<1>9. Changed(State, s, i, [event[i] EXCEPT !.queued = FALSE, !.signal = FALSE])
  BY <1>1, <1>5, <1>7, <1>8, StateFields DEF Changed, Others
<1>10. s.swaps = Counted(i) /\ s.limit = limit BY <1>1, <1>4, <1>5 DEF Counted
<1>11. ~s.event[i].queued BY <1>3, <1>7 DEF SnaDri2Event
<1> QED BY <1>1, <1>3, <1>6, <1>8, <1>9, <1>10, <1>11 DEF s, q

\* An event is freed after a change of it.
LEMMA FreedFrom ==
  ASSUME NEW s, NEW r, NEW t, NEW i, NEW o, NEW X, Changed(s, r, i, o), IsFreed(r, t, X, i)
  PROVE  Freed(s, t, i, r.swaps)
<1>1. DOMAIN r.event = DOMAIN s.event /\ r.chain = s.chain
      /\ \A j \in DOMAIN s.event \ {i} : r.event[j] = s.event[j]
  BY DEF Changed, Others
<1>2. Thinned(s, t, {i}) BY <1>1 DEF Thinned, IsFreed
<1> QED BY <1>1, <1>2 DEF IsFreed, Freed

\* The flip is complete, and another may be made.
LEMMA ChainStep ==
  ASSUME Driven, NEW i \in Info, FlipEventChain(i)
  PROVE  \E t : /\ Fine(t)
                /\ flip_pending \in {0, i} =>
                     Freed(State, t, i, Counted(i)) /\ t.flip = 0 /\ t.flip_pending = 0
                     /\ t.limit = limit
<1> DEFINE r == CompleteSignal(Flipped(i), i)
           s == Free(r, i)
           N == {}
<1>n. N \ {i} = N BY DEF N
<1>1. PICK b \in BOOLEAN : Become(ChainFlip(s, b)) BY DEF FlipEventChain
<1> DEFINE t == ChainFlip(s, b)
<1>2. flip = i BY DEF FlipEventChain
<1>3. /\ Sane(r, {}) /\ i \in DOMAIN event
      /\ Changed(State, r, i, [event[i] EXCEPT !.queued = FALSE, !.signal = FALSE])
      /\ ~r.event[i].queued /\ r.swaps = Counted(i) /\ r.limit = limit
      /\ r.flip = 0 /\ r.flip_pending = IF flip_pending = i THEN 0 ELSE flip_pending
  BY <1>2, FlipDone
<1> HIDE DEF r
<1>4. i \in DOMAIN r.event /\ Sane(r, N) BY <1>3, StateFields DEF Changed, Others, N
<1> HIDE DEF N
<1>5. IsFreed(r, s, N, i) BY <1>3, <1>4, FreeFacts
<1> HIDE DEF s
<1>6. Sane(s, N) /\ s.flip = 0 /\ s.limit = limit
      /\ s.flip_pending = IF r.flip_pending = i THEN 0 ELSE r.flip_pending
  BY <1>3, <1>5, <1>n DEF IsFreed
<1>7. Sane(t, {}) /\ Ahead(t) BY <1>6, ChainFlipFacts DEF N
<1>8. ASSUME flip_pending \in {0, i}
      PROVE  Freed(State, t, i, Counted(i)) /\ t.flip = 0 /\ t.flip_pending = 0
             /\ t.limit = limit
  <2>1. s.flip_pending = 0 BY <1>3, <1>6, <1>8
  <2>2. t = s BY <2>1 DEF ChainFlip
  <2>3. Freed(State, s, i, Counted(i)) BY <1>3, <1>5, FreedFrom
  <2> QED BY <1>6, <2>1, <2>2, <2>3
<1> HIDE DEF t
<1>9. Fine(t) BY <1>1, <1>7 DEF Fine, t
<1> QED BY <1>8, <1>9

\* The flip is complete, and the last.
LEMMA LastStep ==
  ASSUME Driven, NEW i \in Info, FlipEventLast(i)
  PROVE  \E t : /\ Fine(t) /\ Finished(State, t, i, Counted(i)) /\ t.limit = limit
                /\ t.flip = 0 /\ t.flip_pending = 0
<1> DEFINE r == CompleteSignal(Flipped(i), i)
           t == Finish(r, i)
<1>1. Become(t) /\ flip = i /\ flip_pending \in {0, i} BY DEF FlipEventLast
<1>3. /\ Sane(r, {}) /\ i \in DOMAIN event
      /\ Changed(State, r, i, [event[i] EXCEPT !.queued = FALSE, !.signal = FALSE])
      /\ ~r.event[i].queued /\ r.swaps = Counted(i) /\ r.limit = limit
      /\ r.flip = 0 /\ r.flip_pending = IF flip_pending = i THEN 0 ELSE flip_pending
  BY <1>1, FlipDone
<1> HIDE DEF r
<1>4. i \in DOMAIN r.event BY <1>3, StateFields DEF Changed, Others
<1>5. /\ Sane(t, {}) /\ Finished(r, t, i, r.swaps)
      /\ t.flip_pending = (IF r.flip_pending = i THEN 0 ELSE r.flip_pending)
      /\ t.flip = r.flip /\ t.limit = r.limit
  BY <1>3, <1>4, FinishFacts
<1> HIDE DEF t
<1>6. Finished(State, t, i, Counted(i)) BY <1>3, <1>5, FinishedFrom
<1>7. t.flip = 0 /\ t.flip_pending = 0 /\ t.limit = limit BY <1>1, <1>3, <1>5
<1>8. Ahead(t) BY <1>7 DEF Ahead
<1>9. Fine(t) BY <1>1, <1>5, <1>8 DEF Fine
<1> QED BY <1>6, <1>7, <1>9

\* The event of a flip that goes on.
Again(i) ==
  [event[i] EXCEPT !.type = event[i].flip_continue, !.flip_continue = "none",
                   !.signal = event[i].flip_continue = "FLIP_THROTTLE" /\ event[i].draw # None]
\* How it goes on.
ContinueTurns(i, t) ==
  \/ /\ Changed(State, t, i, Again(i))
     /\ t.flip = i /\ t.flip_pending = i /\ t.swaps = Counted(i) /\ t.limit = limit
  \/ /\ Freed(State, t, i, IF ~Again(i).signal \/ event[i].client = None THEN Counted(i)
                           ELSE [Counted(i) EXCEPT ![event[i].draw] = @ - 1])
     /\ t.flip = 0 /\ t.flip_pending = 0 /\ t.limit = limit

\* The flip is complete, and goes on.
LEMMA ContinueStep ==
  ASSUME Driven, NEW i \in Info, FlipEventContinue(i)
  PROVE  \E t : Fine(t) /\ ContinueTurns(i, t)
<1> DEFINE r == CompleteSignal(Flipped(i), i)
           g == event[i].flip_continue = "FLIP_THROTTLE" /\ event[i].draw # None
           o == [r.event[i] EXCEPT !.type = event[i].flip_continue, !.flip_continue = "none",
                                   !.signal = g]
           s == With(r, i, o)
           N == {}
<1>n. N \ {i} = N BY DEF N
<1>0. flip = i /\ flip_pending \in {0, i} /\ event[i].flip_continue # "none"
  BY DEF FlipEventContinue
<1>1. PICK b \in BOOLEAN :
        Become(IF b THEN Flip(s, i) ELSE Free(CompleteSignal(s, i), i))
  BY DEF FlipEventContinue, With
<1>3. /\ Sane(r, {}) /\ i \in DOMAIN event /\ event[i] \in SnaDri2Event /\ event[i].queued
      /\ Changed(State, r, i, [event[i] EXCEPT !.queued = FALSE, !.signal = FALSE])
      /\ ~r.event[i].queued /\ r.swaps = Counted(i) /\ r.limit = limit
      /\ r.flip = 0 /\ r.flip_pending = IF flip_pending = i THEN 0 ELSE flip_pending
  BY <1>0, FlipDone
<1> HIDE DEF r
<1>g. g \in BOOLEAN OBVIOUS
<1>a. Again(i) = [event[i] EXCEPT !.type = event[i].flip_continue, !.flip_continue = "none",
                                  !.signal = g]
  BY DEF Again
<1> HIDE DEF g
<1>4. r \in DriverState /\ i \in DOMAIN r.event /\ Sane(r, N) /\ r.flip_pending = 0
  BY <1>0, <1>3, StateFields DEF Changed, Others, N, Sane
<1> HIDE DEF N
<1>5. r.event[i] \in SnaDri2Event /\ i # 0 BY <1>4, EventType
<1>6. r.event[i] = [event[i] EXCEPT !.queued = FALSE, !.signal = FALSE] BY <1>3 DEF Changed
<1>7. /\ o \in SnaDri2Event /\ o.draw = r.event[i].draw /\ o.client = r.event[i].client
      /\ o.after = r.event[i].after /\ o.queued = r.event[i].queued
      /\ o.type = event[i].flip_continue /\ o.signal = g
  BY <1>0, <1>3, <1>5, <1>g, ZenonT(60) DEF SnaDri2Event, Type
<1>8. o.draw = event[i].draw /\ o.client = event[i].client /\ ~o.queued
  BY <1>3, <1>6, <1>7 DEF SnaDri2Event
<1>9. [o EXCEPT !.queued = TRUE] = Again(i)
  <2> DEFINE p == [o EXCEPT !.queued = TRUE]
             q == [event[i] EXCEPT !.type = event[i].flip_continue, !.flip_continue = "none",
                                   !.signal = g]
  <2>1. p \in SnaDri2Event BY <1>7 DEF SnaDri2Event
  <2>2. q \in SnaDri2Event BY <1>0, <1>3, <1>g DEF SnaDri2Event, Type
  <2>3. event[i].queued = TRUE BY <1>3 DEF SnaDri2Event
  <2>4. /\ o.draw = event[i].draw /\ o.client = event[i].client
        /\ o.type = event[i].flip_continue /\ o.flip_continue = "none"
        /\ o.signal = g /\ o.sync = event[i].sync /\ o.pending = event[i].pending
        /\ o.after = event[i].after
    BY <1>3, <1>5, <1>6 DEF SnaDri2Event
  <2> HIDE DEF o
  <2>5. /\ p.draw = o.draw /\ p.client = o.client /\ p.type = o.type /\ p.queued = TRUE
        /\ p.signal = o.signal /\ p.sync = o.sync /\ p.pending = o.pending
        /\ p.flip_continue = o.flip_continue /\ p.after = o.after
    BY <1>7 DEF SnaDri2Event
  <2>6. /\ q.draw = event[i].draw /\ q.client = event[i].client
        /\ q.type = event[i].flip_continue /\ q.flip_continue = "none"
        /\ q.signal = g /\ q.sync = event[i].sync /\ q.pending = event[i].pending
        /\ q.after = event[i].after /\ q.queued = event[i].queued
    BY <1>3 DEF SnaDri2Event
  <2> HIDE DEF p, q
  <2>7. p.draw = q.draw /\ p.client = q.client /\ p.type = q.type BY <2>4, <2>5, <2>6
  <2>8. p.queued = q.queued BY <2>3, <2>5, <2>6
  <2>9. p.signal = q.signal BY <2>4, <2>5, <2>6
  <2>10. p.sync = q.sync /\ p.pending = q.pending BY <2>4, <2>5, <2>6
  <2>11. p.flip_continue = q.flip_continue /\ p.after = q.after BY <2>4, <2>5, <2>6
  <2>12. p = q BY ONLY <2>1, <2>2, <2>7, <2>8, <2>9, <2>10, <2>11, EventEqual
  <2> QED BY <1>a, <2>12 DEF p, q
<1>c. Again(i).signal = g BY <1>3, <1>a DEF SnaDri2Event
<1> HIDE DEF o
<1>10. /\ s.event[i] = o /\ Others(r, s, i) /\ Same(r, s) /\ s.swaps = r.swaps
       /\ s.limit = r.limit /\ s \in DriverState
  BY <1>4, <1>7, WithFacts
<1>11. Soft(r, s) BY <1>4, <1>5, <1>7, SoftWith
<1> HIDE DEF s
<1>12. Sane(s, N) BY <1>4, <1>11, SoftSane
<1>13. /\ i \in DOMAIN s.event /\ s.chain = chain /\ s.flip = 0 /\ s.flip_pending = 0
       /\ s.swaps = Counted(i) /\ s.limit = limit /\ Changed(State, s, i, o)
  BY <1>3, <1>4, <1>10, StateFields DEF Changed, Others, Same
<1>14. CASE b
  <2> DEFINE t == Flip(s, i)
  <2>1. Become(t) BY <1>1, <1>14
  <2>2. s.event[i].type # "SWAP_COMPLETE" BY <1>3, <1>7, <1>10 DEF SnaDri2Event
  <2>3. /\ Sane(t, N) /\ Ahead(t) /\ t.event[i] = [s.event[i] EXCEPT !.queued = TRUE]
        /\ Others(s, t, i) /\ t.chain = s.chain /\ t.flip = i /\ t.flip_pending = i
        /\ t.swaps = s.swaps /\ t.limit = s.limit
    BY <1>8, <1>10, <1>12, <1>13, <2>2, FlipFacts
  <2> HIDE DEF t
  <2>4. Changed(State, t, i, Again(i))
    BY <1>9, <1>10, <1>13, <2>3 DEF Changed, Others
  <2>5. ContinueTurns(i, t) BY <1>13, <2>3, <2>4 DEF ContinueTurns
  <2>6. Fine(t) BY <2>1, <2>3 DEF Fine, N
  <2> QED BY <2>5, <2>6
<1>15. CASE ~b
  <2> DEFINE c == CompleteSignal(s, i)
             t == Free(c, i)
  <2>1. Become(t) BY <1>1, <1>15
  <2>2. /\ Soft(s, c) /\ Others(s, c, i) /\ c.limit = s.limit
        /\ c.event[i] = [s.event[i] EXCEPT !.signal = FALSE]
        /\ c.swaps = IF ~s.event[i].signal \/ s.event[i].client = None THEN s.swaps
                     ELSE [s.swaps EXCEPT ![s.event[i].draw] = @ - 1]
    BY <1>10, <1>13, SignalFacts
  <2> HIDE DEF c
  <2>3. Sane(c, N) BY <1>12, <2>2, SoftSane
  <2>4. /\ i \in DOMAIN c.event /\ ~c.event[i].queued /\ c.chain = chain /\ c.flip = 0
        /\ c.flip_pending = 0 /\ c.limit = limit
    BY <1>8, <1>10, <1>13, <2>2 DEF Soft, Same
  <2>5. IsFreed(c, t, N, i) BY <2>3, <2>4, FreeFacts
  <2> HIDE DEF t
  <2>6. Changed(State, c, i, c.event[i])
    BY <1>13, <2>2, <2>4, StateFields DEF Changed, Others
  <2>7. Freed(State, t, i, c.swaps) BY <2>5, <2>6, FreedFrom
  <2>8. c.swaps = IF ~Again(i).signal \/ event[i].client = None THEN Counted(i)
                  ELSE [Counted(i) EXCEPT ![event[i].draw] = @ - 1]
    BY <1>7, <1>8, <1>c, <1>10, <1>13, <2>2
  <2>9. /\ Sane(t, N) /\ t.flip = 0 /\ t.flip_pending = 0 /\ t.limit = limit
    BY <1>n, <2>4, <2>5 DEF IsFreed
  <2>10. ContinueTurns(i, t) BY <2>7, <2>8, <2>9 DEF ContinueTurns
  <2>11. Ahead(t) BY <2>9 DEF Ahead
  <2>12. Fine(t) BY <2>1, <2>9, <2>11 DEF Fine, N
  <2> QED BY <2>10, <2>12
<1> QED BY <1>14, <1>15

-----------------------------------------------------------------------------
(* The requests of clients.                                                  *)

\* The server counts a swap.
LEMMA SwappingFacts ==
  ASSUME Driven, NEW w \in Windows
  PROVE  /\ Sane(Swapping(w), {}) /\ Ahead(Swapping(w))
         /\ Swapping(w).event = event /\ Swapping(w).chain = chain
         /\ Swapping(w).flip = flip /\ Swapping(w).flip_pending = flip_pending
         /\ Swapping(w).swaps = [swaps EXCEPT ![w] = @ + 1] /\ Swapping(w).limit = limit
<1> DEFINE s == State
           n == [swaps EXCEPT ![w] = @ + 1]
           t == [s EXCEPT !.swaps = n]
<1>1. Swapping(w) = t BY StateFields DEF Swapping
<1>2. Sane(s, {}) /\ s \in DriverState /\ Ahead(s) BY DEF Driven, Sane
<1>3. s.swaps = swaps /\ s.event = event /\ s.chain = chain /\ s.flip = flip
      /\ s.flip_pending = flip_pending /\ s.limit = limit
  BY StateFields
<1> HIDE DEF s
<1>4. n \in [Windows -> Int]
  <2>1. swaps \in [Windows -> Int] BY <1>2, <1>3, StateTypes
  <2>2. \A v \in Windows : swaps[v] \in Int /\ swaps[v] + 1 \in Int BY <2>1
  <2> QED BY <2>1, <2>2
<1>5. s.limit \in [Windows -> 1..3] BY <1>2, StateTypes
<1>n. n = [swaps EXCEPT ![w] = @ + 1] OBVIOUS
<1> HIDE DEF n
<1>6. Soft(s, t) /\ t.swaps = n /\ t.event = s.event /\ t.limit = s.limit
  BY <1>2, <1>4, <1>5, SoftCounts, ZenonT(60)
<1> HIDE DEF t
<1>7. Sane(t, {}) BY <1>2, <1>6, SoftSane
<1>8. t.chain = chain /\ t.flip = flip /\ t.flip_pending = flip_pending
  BY <1>3, <1>6 DEF Soft, Same
<1>9. Ahead(t) BY <1>2, <1>3, <1>8 DEF Ahead
<1> QED BY <1>1, <1>3, <1>6, <1>7, <1>8, <1>9, <1>n

\* A state t is s but for the limit of a window.
Limited(s, t, w, l) ==
  /\ t.event = s.event /\ t.chain = s.chain /\ t.flip = s.flip
  /\ t.flip_pending = s.flip_pending /\ t.swaps = s.swaps
  /\ t.limit = [s.limit EXCEPT ![w] = l]

\* The limit of a window.
LEMMA LimitFacts ==
  ASSUME NEW s, Sane(s, {}), Ahead(s), NEW w \in Windows, NEW l \in 1..3,
         NEW t, t = [s EXCEPT !.limit[w] = l]
  PROVE  Sane(t, {}) /\ Ahead(t) /\ Limited(s, t, w, l)
<1> DEFINE m == [s.limit EXCEPT ![w] = l]
           u == [s EXCEPT !.limit = m]
<1>1. s \in DriverState BY DEF Sane
<1>2. m \in [Windows -> 1..3] /\ s.swaps \in [Windows -> Int]
  BY <1>1, StateTypes
<1>m. m = [s.limit EXCEPT ![w] = l] OBVIOUS
<1> HIDE DEF m
<1>3. Soft(s, u) /\ u.limit = m /\ u.event = s.event /\ u.swaps = s.swaps
  BY <1>1, <1>2, SoftCounts, ZenonT(60)
<1>t. t = u BY <1>m
<1> HIDE DEF u
<1>4. Sane(t, {}) BY <1>3, <1>t, SoftSane
<1>5. t.chain = s.chain /\ t.flip = s.flip /\ t.flip_pending = s.flip_pending
  BY <1>3, <1>t DEF Soft, Same
<1>6. Ahead(t) BY <1>5 DEF Ahead
<1> QED BY <1>3, <1>4, <1>5, <1>6, <1>m, <1>t DEF Limited

\* An event that comes last in a chain is behind no other but itself.
LEMMA AddBehind ==
  ASSUME NEW s, Sane(s, {}), NEW t, NEW i, NEW v \in Windows,
         t.chain = [s.chain EXCEPT ![v] = Append(@, i)]
  PROVE  \A j : IsBehind(t, j) => IsBehind(s, j) \/ j = i
<1>0. s \in DriverState BY DEF Sane
<1>1. s.chain \in [Windows -> Seq(Info)] /\ \A w \in Windows : Len(s.chain[w]) \in Nat
  BY <1>0, StateTypes
<1>2. t.chain[v] = Append(s.chain[v], i) /\ \A w \in Windows : w # v => t.chain[w] = s.chain[w]
  BY <1>1
<1>3. ASSUME NEW j, NEW w \in Windows, NEW k \in 2..Len(t.chain[w]), t.chain[w][k] = j
      PROVE  IsBehind(s, j) \/ j = i
  <2>1. CASE w # v BY <1>2, <1>3, <2>1 DEF IsBehind
  <2>2. CASE w = v
    <3> DEFINE q == s.chain[v]
               n == Len(q)
    <3>1. q \in Seq(Info) /\ n \in Nat BY <1>1
    <3>2. Len(Append(q, i)) = n + 1 /\ Append(q, i)[n + 1] = i
          /\ \A m \in 1..n : Append(q, i)[m] = q[m]
      BY <3>1
    <3>3. k = n + 1 \/ k \in 2..n BY <1>2, <1>3, <2>2, <3>1, <3>2
    <3>4. CASE k = n + 1 BY <1>2, <1>3, <2>2, <3>2, <3>4
    <3>5. CASE k \in 2..n
      <4>1. q[k] = j BY <1>2, <1>3, <2>2, <3>1, <3>2, <3>5
      <4> QED BY <3>5, <4>1 DEF IsBehind
    <3> QED BY <3>3, <3>4, <3>5
  <2> QED BY <2>1, <2>2
<1> QED BY <1>3 DEF IsBehind

\* A new event, last in its chain.
LEMMA AddStep ==
  ASSUME NEW s, Sane(s, {}), Ahead(s), NEW i \in Fresh(s), NEW info \in SnaDri2Event,
         <<info.client, info.draw>> \in Draws, info.after = 0, ~info.queued
  PROVE  LET t == AddEvent(s, i, info)
         IN  /\ Sane(t, {}) /\ Ahead(t) /\ Added(s, t, i, info) /\ Unmoved(s, t)
             /\ t.swaps = s.swaps /\ i \in DOMAIN t.event /\ i # s.flip_pending /\ i # s.flip
<1> DEFINE t == AddEvent(s, i, info)
           N == {}
<1>0. Sane(s, N) /\ s \in DriverState /\ Known(s) /\ Waiting(s) BY DEF Sane
<1>w. info.draw \in Windows BY BoundsAssumption
<1> HIDE DEF N
<1>1. /\ Sane(t, N) /\ DOMAIN t.event = DOMAIN s.event \cup {i}
      /\ t.event[i] = info /\ i \notin DOMAIN s.event /\ i \in Info
      /\ \A j \in DOMAIN s.event : t.event[j] = s.event[j]
      /\ t.chain = [s.chain EXCEPT ![info.draw] = Append(@, i)]
      /\ t.flip_pending = s.flip_pending
      /\ t.flip = s.flip /\ t.vblanks = s.vblanks
      /\ t.swaps = s.swaps /\ t.limit = s.limit
  BY <1>0, AddFacts
<1> HIDE DEF t
<1>2. \A j : IsBehind(t, j) => IsBehind(s, j) \/ j = i
  <2> DEFINE v == info.draw
  <2>1. v \in Windows /\ t.chain = [s.chain EXCEPT ![v] = Append(@, i)] BY <1>1, <1>w
  <2> HIDE DEF v
  <2> QED BY <2>1, AddBehind
<1>3. Ahead(t) BY <1>1 DEF Ahead
<1>4. Unmoved(s, t) /\ Added(s, t, i, info) BY <1>1, <1>2 DEF Unmoved, Added
<1>5. i # 0 /\ i # Present BY <1>0, FreshFacts
<1>6. i # s.flip_pending /\ i # s.flip BY <1>0, <1>1, <1>5 DEF Waiting, Known
<1>7. Sane(t, {}) BY <1>1 DEF N
<1> QED BY <1>1, <1>3, <1>4, <1>6, <1>7 DEF t

\* An event that is new, and changes.
LEMMA AddedChanged ==
  ASSUME NEW s, NEW r, NEW t, NEW i, NEW o, NEW p, Added(s, r, i, o), Changed(r, t, i, p)
  PROVE  Added(s, t, i, p)
<1>1. t.chain = r.chain /\ DOMAIN t.event = DOMAIN r.event /\ t.event[i] = p
      /\ \A j \in DOMAIN r.event \ {i} : t.event[j] = r.event[j]
  BY DEF Changed, Others
<1>2. \A j : IsBehind(t, j) <=> IsBehind(r, j) BY <1>1 DEF IsBehind
<1>3. /\ i \in Info /\ i \notin DOMAIN s.event /\ DOMAIN r.event = DOMAIN s.event \cup {i}
      /\ r.event[i] = o /\ \A j \in DOMAIN s.event : r.event[j] = s.event[j]
      /\ \A j : IsBehind(r, j) => IsBehind(s, j) \/ j = i
  BY DEF Added
<1>4. \A j \in DOMAIN s.event : t.event[j] = s.event[j] BY <1>1, <1>3
<1> QED BY <1>1, <1>2, <1>3, <1>4 DEF Added

\* A new event that waits for a vblank.
LEMMA AddVblank ==
  ASSUME NEW s, Sane(s, {}), Ahead(s), NEW i \in Fresh(s), NEW info \in SnaDri2Event,
         <<info.client, info.draw>> \in Draws, info.after = 0, ~info.queued
  PROVE  LET t == WaitVblank(AddEvent(s, i, info), i)
         IN  /\ Sane(t, {}) /\ Ahead(t) /\ Added(s, t, i, [info EXCEPT !.queued = TRUE])
             /\ Unmoved(s, t) /\ t.swaps = s.swaps
<1> DEFINE r == AddEvent(s, i, info)
           t == WaitVblank(r, i)
<1>1. /\ Sane(r, {}) /\ Ahead(r) /\ Added(s, r, i, info) /\ Unmoved(s, r) /\ r.swaps = s.swaps
      /\ i \in DOMAIN r.event /\ i # s.flip_pending /\ i # s.flip
  BY AddStep
<1> HIDE DEF r
<1>2. i # r.flip_pending /\ i # r.flip BY <1>1 DEF Unmoved
<1>3. /\ Sane(t, {}) /\ t.event[i] = [r.event[i] EXCEPT !.queued = TRUE] /\ Others(r, t, i)
      /\ t.chain = r.chain /\ t.flip = r.flip /\ t.flip_pending = r.flip_pending
      /\ t.swaps = r.swaps /\ t.limit = r.limit
  BY <1>1, <1>2, VblankFacts
<1> HIDE DEF t
<1>4. r.event[i] = info BY <1>1 DEF Added
<1>5. Changed(r, t, i, [info EXCEPT !.queued = TRUE]) BY <1>1, <1>3, <1>4 DEF Changed
<1>6. Added(s, t, i, [info EXCEPT !.queued = TRUE]) BY <1>1, <1>5, AddedChanged
<1>7. Unmoved(s, t) /\ Ahead(t) /\ t.swaps = s.swaps BY <1>1, <1>3 DEF Unmoved, Ahead
<1> QED BY <1>3, <1>6, <1>7 DEF t, r

\* Who may ask for a swap.
LEMMA SwapsFacts ==
  ASSUME NEW c, NEW w, Swaps(c, w)
  PROVE  c \in Clients /\ w \in Windows /\ <<c, w>> \in Draws /\ swaps[w] < limit[w]
<1>1. <<c, w>> \in Draws /\ swaps[w] < limit[w] BY DEF Swaps, Requests
<1> QED BY <1>1, BoundsAssumption

\* The events of a client and its window.
LEMMA SwapEvent ==
  ASSUME NEW c, NEW w, <<c, w>> \in Draws, NEW y \in Type, NEW b \in BOOLEAN
  PROVE  /\ Swap(w, c, y) \in SnaDri2Event /\ [Swap(w, c, y) EXCEPT !.sync = b] \in SnaDri2Event
         /\ Blank(w, c) \in SnaDri2Event /\ [Blank(w, c) EXCEPT !.signal = TRUE] \in SnaDri2Event
<1>1. c \in Clients /\ w \in Windows /\ 0 \in 0..Events BY BoundsAssumption
<1>2. Blank(w, c) \in SnaDri2Event BY <1>1 DEF Blank, SnaDri2Event, Type
<1> DEFINE o == Blank(w, c)
<1> HIDE DEF o
<1>3. o \in SnaDri2Event BY <1>2 DEF o
<1>4. [o EXCEPT !.signal = TRUE] \in SnaDri2Event BY <1>3 DEF SnaDri2Event
<1>5. [o EXCEPT !.type = y, !.signal = TRUE] \in SnaDri2Event BY <1>3 DEF SnaDri2Event
<1>6. Swap(w, c, y) \in SnaDri2Event BY <1>5 DEF Swap, o
<1>7. [Swap(w, c, y) EXCEPT !.sync = b] \in SnaDri2Event BY <1>6, EventFlags
<1> QED BY <1>2, <1>4, <1>6, <1>7 DEF o

\* What they say.
LEMMA SwapFields ==
  ASSUME NEW c, NEW w, NEW y
  PROVE  /\ Blank(w, c).draw = w /\ Blank(w, c).client = c /\ Blank(w, c).type = "WAITMSC"
         /\ ~Blank(w, c).queued /\ ~Blank(w, c).signal /\ ~Blank(w, c).pending
         /\ Blank(w, c).flip_continue = "none" /\ Blank(w, c).after = 0
         /\ Swap(w, c, y).draw = w /\ Swap(w, c, y).client = c /\ Swap(w, c, y).type = y
         /\ ~Swap(w, c, y).queued /\ Swap(w, c, y).signal /\ ~Swap(w, c, y).pending
         /\ Swap(w, c, y).flip_continue = "none" /\ Swap(w, c, y).after = 0
BY DEF Blank, Swap

\* A new event of a swap of c, which is not pending.
IsSwap(o, c, w) ==
  o.draw = w /\ o.client = c /\ ~o.pending /\ o.flip_continue = "none"
\* The server counts one more.
More(w) == [swaps EXCEPT ![w] = @ + 1]

\* How a swap that is queued goes on.
QueueTurns(c, w, t) ==
  \E i, o :
    /\ Added(State, t, i, o) /\ IsSwap(o, c, w) /\ o.signal
    /\ o.type \in {"FLIP", "SWAP", "SWAP_COMPLETE"}
    /\ o.queued \/ chain[w] # <<>>
    /\ t.flip = flip /\ t.flip_pending = flip_pending /\ t.swaps = More(w)
    /\ \/ t.limit = [limit EXCEPT ![w] = 1]
       \/ o.type # "FLIP" /\ \E l \in 1..3 : t.limit = [limit EXCEPT ![w] = l]
       \/ o.type # "FLIP" /\ t.limit = limit

\* An event that waits for a vblank, and a limit.
LEMMA QueueStep ==
  ASSUME Driven, NEW c, NEW w, <<c, w>> \in Draws, NEW i \in Fresh(Swapping(w)),
         NEW y \in {"FLIP", "SWAP", "SWAP_COMPLETE"}, NEW b \in BOOLEAN, NEW l \in 1..3,
         y = "FLIP" => l = 1, NEW info,
         info = Swap(w, c, y) \/ info = [Swap(w, c, y) EXCEPT !.sync = b],
         Become([WaitVblank(AddEvent(Swapping(w), i, info), i) EXCEPT !.limit[w] = l])
  PROVE  \E t : Fine(t) /\ QueueTurns(c, w, t)
<1> DEFINE s == Swapping(w)
           r == WaitVblank(AddEvent(s, i, info), i)
           t == [r EXCEPT !.limit[w] = l]
<1>1. y \in Type /\ c \in Clients /\ w \in Windows BY BoundsAssumption DEF Type
<1>2. /\ Sane(s, {}) /\ Ahead(s) /\ s.event = event /\ s.chain = chain
      /\ s.flip = flip /\ s.flip_pending = flip_pending
      /\ s.swaps = [swaps EXCEPT ![w] = @ + 1] /\ s.limit = limit
  BY <1>1, SwappingFacts
<1>f. i \in Fresh(s) OBVIOUS
<1>3. Become(t) OBVIOUS
<1> HIDE DEF s
<1>4. /\ info \in SnaDri2Event /\ info.draw = w /\ info.client = c /\ info.type = y
      /\ ~info.queued /\ info.signal /\ ~info.pending /\ info.flip_continue = "none"
      /\ info.after = 0
  <2> DEFINE o == Swap(w, c, y)
             p == [o EXCEPT !.sync = b]
  <2>1. o \in SnaDri2Event /\ p \in SnaDri2Event BY <1>1, SwapEvent
  <2>2. /\ o.draw = w /\ o.client = c /\ o.type = y
        /\ ~o.queued /\ o.signal /\ ~o.pending /\ o.flip_continue = "none" /\ o.after = 0
    BY SwapFields
  <2>4. info = o \/ info = p OBVIOUS
  <2> HIDE DEF o
  <2>3. /\ p.draw = w /\ p.client = c /\ p.type = y
        /\ ~p.queued /\ p.signal /\ ~p.pending /\ p.flip_continue = "none" /\ p.after = 0
    BY <2>1, <2>2 DEF SnaDri2Event
  <2> HIDE DEF p
  <2> QED BY <2>1, <2>2, <2>3, <2>4
<1>5. /\ Sane(r, {}) /\ Ahead(r) /\ Added(s, r, i, [info EXCEPT !.queued = TRUE])
      /\ Unmoved(s, r) /\ r.swaps = s.swaps
  <2>1. <<info.client, info.draw>> \in Draws BY <1>4
  <2> QED BY <1>f, <1>2, <1>4, <2>1, AddVblank
<1> HIDE DEF r
<1>6. /\ Sane(t, {}) /\ Ahead(t) /\ t.event = r.event /\ t.chain = r.chain
      /\ t.flip = r.flip /\ t.flip_pending = r.flip_pending /\ t.swaps = r.swaps
      /\ t.limit = [r.limit EXCEPT ![w] = l]
  <2>1. t = [r EXCEPT !.limit[w] = l] OBVIOUS
  <2> HIDE DEF t
  <2>2. Sane(t, {}) /\ Ahead(t) /\ Limited(r, t, w, l) BY <1>1, <1>5, <2>1, LimitFacts
  <2> QED BY <2>2 DEF Limited
<1> HIDE DEF t
<1> DEFINE o == [info EXCEPT !.queued = TRUE]
<1>7. o.draw = w /\ o.client = c /\ o.type = y /\ o.queued /\ o.signal /\ ~o.pending
      /\ o.flip_continue = "none"
  BY <1>4 DEF SnaDri2Event
<1> HIDE DEF o
<1>8. Added(State, t, i, o)
  BY <1>2, <1>5, <1>6, StateFields DEF Added, IsBehind, o
<1>9. QueueTurns(c, w, t)
  <2>1. t.limit = [limit EXCEPT ![w] = l] /\ t.flip = flip /\ t.flip_pending = flip_pending
        /\ t.swaps = More(w)
    BY <1>2, <1>5, <1>6 DEF Unmoved, More
  <2>2. \/ t.limit = [limit EXCEPT ![w] = 1]
        \/ o.type # "FLIP" /\ \E k \in 1..3 : t.limit = [limit EXCEPT ![w] = k]
    BY <1>7, <2>1
  <2>3. IsSwap(o, c, w) BY <1>7 DEF IsSwap
  <2> QED BY <1>7, <1>8, <2>1, <2>2, <2>3 DEF QueueTurns
<1>10. Fine(t) BY <1>3, <1>6 DEF Fine, t
<1> QED BY <1>9, <1>10

\* A swap that is due later.
LEMMA LaterStep ==
  ASSUME Driven, NEW c, NEW w, SwapLater(c, w) PROVE \E t : Fine(t) /\ QueueTurns(c, w, t)
<1>1. <<c, w>> \in Draws BY SwapsFacts DEF SwapLater
<1> DEFINE y == IF CanFlip(w) THEN "FLIP" ELSE "SWAP"
<1>2. PICK i \in Fresh(Swapping(w)) :
        Become([WaitVblank(AddEvent(Swapping(w), i, Swap(w, c, y)), i) EXCEPT !.limit[w] = 1])
  BY DEF SwapLater
<1>3. y \in {"FLIP", "SWAP", "SWAP_COMPLETE"} OBVIOUS
<1> HIDE DEF y
<1> DEFINE info == Swap(w, c, y)
<1>4. Become([WaitVblank(AddEvent(Swapping(w), i, info), i) EXCEPT !.limit[w] = 1]) BY <1>2
<1>5. info = Swap(w, c, y) OBVIOUS
<1> HIDE DEF info
<1> DEFINE l == 1
<1>6. Become([WaitVblank(AddEvent(Swapping(w), i, info), i) EXCEPT !.limit[w] = l]) BY <1>4
<1>7. l \in 1..3 /\ (y = "FLIP" => l = 1) OBVIOUS
<1> HIDE DEF l
<1> QED BY <1>1, <1>3, <1>5, <1>6, <1>7, QueueStep

\* A swap that is not to be seen.
LEMMA SkipStep ==
  ASSUME Driven, NEW c, NEW w, SwapSkip(c, w) PROVE \E t : Fine(t) /\ QueueTurns(c, w, t)
<1>1. <<c, w>> \in Draws BY SwapsFacts DEF SwapSkip
<1> DEFINE y == "SWAP_COMPLETE"
           l == 1
<1>2. PICK i \in Fresh(Swapping(w)) :
        Become([WaitVblank(AddEvent(Swapping(w), i, Swap(w, c, y)), i) EXCEPT !.limit[w] = l])
  BY DEF SwapSkip
<1> DEFINE info == Swap(w, c, y)
<1>3. info = Swap(w, c, y) OBVIOUS
<1>4. Become([WaitVblank(AddEvent(Swapping(w), i, info), i) EXCEPT !.limit[w] = l]) BY <1>2
<1>5. y \in {"FLIP", "SWAP", "SWAP_COMPLETE"} /\ l \in 1..3 /\ (y = "FLIP" => l = 1) OBVIOUS
<1> HIDE DEF info, y, l
<1> QED BY <1>1, <1>3, <1>4, <1>5, QueueStep

\* A WaitMSC.
LEMMA WaitStep ==
  ASSUME Driven, NEW c, NEW w, WaitMsc(c, w)
  PROVE  \E t : /\ Fine(t) /\ t.swaps = swaps /\ Unmoved(State, t)
                /\ \E i : Added(State, t, i, [Blank(w, c) EXCEPT !.queued = TRUE])
<1>1. <<c, w>> \in Draws BY DEF WaitMsc, Requests
<1>2. PICK i \in Fresh(State) : Become(WaitVblank(AddEvent(State, i, Blank(w, c)), i))
  BY DEF WaitMsc
<1> DEFINE info == Blank(w, c)
           t == WaitVblank(AddEvent(State, i, info), i)
<1>3. info \in SnaDri2Event
  <2>1. "SWAP" \in Type /\ TRUE \in BOOLEAN BY DEF Type
  <2> QED BY <1>1, <2>1, SwapEvent
<1>4. info.draw = w /\ info.client = c /\ info.after = 0 /\ ~info.queued BY SwapFields
<1> HIDE DEF info
<1>5. <<info.client, info.draw>> \in Draws BY <1>1, <1>4
<1>6. /\ Sane(t, {}) /\ Ahead(t) /\ Added(State, t, i, [info EXCEPT !.queued = TRUE])
      /\ Unmoved(State, t) /\ t.swaps = State.swaps
  BY <1>3, <1>4, <1>5, AddVblank DEF Driven
<1>7. Become(t) BY <1>2 DEF info
<1> HIDE DEF t
<1>8. Fine(t) BY <1>6, <1>7 DEF Fine
<1> QED BY <1>6, <1>8, StateFields DEF info

\* How the flip that is outstanding is continued.
ContinuedTurns(w, mode, t) ==
  /\ flip_pending # 0 /\ event[flip_pending].draw = w
  /\ Changed(State, t, flip_pending, [event[flip_pending] EXCEPT !.flip_continue =
       IF mode = "next" THEN "FLIP_THROTTLE" ELSE "FLIP_COMPLETE"])
  /\ Unmoved(State, t)
  /\ t.swaps = IF mode = "next" \/ event[flip_pending].client = None THEN More(w)
               ELSE [More(w) EXCEPT ![w] = @ - 1]

\* A swap that continues a flip.
LEMMA ContinuedStep ==
  ASSUME Driven, NEW c, NEW w, NEW mode, SwapContinue(c, w, mode)
  PROVE  \E t : Fine(t) /\ ContinuedTurns(w, mode, t)
<1> DEFINE i == flip_pending
           s == Swapping(w)
           f == IF mode = "next" THEN "FLIP_THROTTLE" ELSE "FLIP_COMPLETE"
           o == [s.event[i] EXCEPT !.flip_continue = f]
           t == With(s, i, o)
           k == event[i]
           u == IF mode = "next" THEN t ELSE Told(t, k)
<1>1. w \in Windows BY SwapsFacts DEF SwapContinue
<1>2. i # 0 /\ event[i].draw = w BY DEF SwapContinue
<1>3. Become(u) BY DEF SwapContinue, With
<1>4. /\ Sane(s, {}) /\ Ahead(s) /\ s.event = event /\ s.chain = chain
      /\ s.flip = flip /\ s.flip_pending = flip_pending
      /\ s.swaps = [swaps EXCEPT ![w] = @ + 1] /\ s.limit = limit
  BY <1>1, SwappingFacts
<1> HIDE DEF s
<1>5. s \in DriverState /\ i \in DOMAIN s.event BY <1>2, <1>4 DEF Sane, Waiting
<1>6. s.event[i] \in SnaDri2Event BY <1>5, EventType
<1>7. /\ o \in SnaDri2Event /\ o.draw = s.event[i].draw /\ o.client = s.event[i].client
      /\ o.after = s.event[i].after /\ o.queued = s.event[i].queued /\ o.type = s.event[i].type
  BY <1>6 DEF SnaDri2Event
<1>o. o = [event[i] EXCEPT !.flip_continue = f] BY <1>4
<1> HIDE DEF o
<1>8. Soft(s, t) BY <1>5, <1>7, SoftWith
<1>9. /\ t \in DriverState /\ t.event[i] = o /\ Others(s, t, i) /\ Same(s, t)
      /\ t.swaps = s.swaps /\ t.limit = s.limit
  BY <1>5, <1>7, WithFacts
<1> HIDE DEF t, k
<1>10. /\ Soft(t, u) /\ u.event = t.event /\ u.limit = t.limit
       /\ u.swaps = IF mode = "next" \/ k.client = None THEN t.swaps
                    ELSE [t.swaps EXCEPT ![k.draw] = @ - 1]
  <2>1. CASE mode = "next" BY <1>9, <2>1, SoftSelf
  <2>2. CASE mode # "next"
    <3>1. u = Told(t, k) BY <2>2
    <3> QED BY <1>9, <2>2, <3>1, ToldFacts
  <2> QED BY <2>1, <2>2
<1> HIDE DEF u
<1>11. Soft(s, u) BY <1>8, <1>10, SoftTwice
<1>12. Sane(u, {}) BY <1>4, <1>11, SoftSane
<1>13. u.flip = flip /\ u.flip_pending = flip_pending /\ u.limit = limit /\ u.chain = chain
  BY <1>4, <1>9, <1>10, <1>11 DEF Soft, Same
<1>14. Ahead(u) BY <1>4, <1>13 DEF Ahead
<1>15. Changed(State, u, i, o)
  BY <1>4, <1>5, <1>9, <1>10, <1>13, StateFields DEF Changed, Others
<1>16. u.swaps = IF mode = "next" \/ event[i].client = None THEN More(w)
                 ELSE [More(w) EXCEPT ![w] = @ - 1]
  BY <1>2, <1>4, <1>9, <1>10 DEF More, k
<1>17. Unmoved(State, u) BY <1>13, StateFields DEF Unmoved
<1>18. ContinuedTurns(w, mode, u) BY <1>2, <1>15, <1>16, <1>17, <1>o DEF ContinuedTurns
<1>19. Fine(u) BY <1>3, <1>12, <1>14 DEF Fine
<1> QED BY <1>18, <1>19

\* A new event of a swap or a wait.
LEMMA NewEvent ==
  ASSUME NEW s, Sane(s, {}), Ahead(s), NEW i \in Fresh(s), NEW c, NEW w, <<c, w>> \in Draws,
         NEW info, info \in SnaDri2Event, info.draw = w, info.client = c, info.after = 0,
         ~info.queued
  PROVE  LET t == AddEvent(s, i, info)
         IN  /\ Sane(t, {}) /\ Ahead(t) /\ Added(s, t, i, info) /\ Unmoved(s, t)
             /\ t.swaps = s.swaps /\ i \in DOMAIN t.event /\ i # s.flip_pending /\ i # s.flip
<1>1. <<info.client, info.draw>> \in Draws OBVIOUS
<1> QED BY <1>1, AddStep

\* A swap that waits for the flip of another window.
LEMMA SwapWaitStep ==
  ASSUME Driven, NEW c, NEW w, NEW mode, SwapWait(c, w, mode) PROVE \E t : Fine(t)
<1> DEFINE s == Swapping(w)
           info == Swap(w, c, "FLIP")
<1>1. c \in Clients /\ w \in Windows /\ <<c, w>> \in Draws BY SwapsFacts DEF SwapWait
<1>2. PICK i \in Fresh(s) :
        Become([AddEvent(s, i, info) EXCEPT !.flip_pending = i, !.limit[w] = 1])
  BY Zenon DEF SwapWait
<1> DEFINE r == AddEvent(s, i, info)
           m == [r.limit EXCEPT ![w] = 1]
           u == [r EXCEPT !.flip_pending = i]
           t == [u EXCEPT !.limit[w] = 1]
<1>3. flip_pending # 0 BY DEF SwapWait
<1>4. /\ Sane(s, {}) /\ Ahead(s) /\ s.flip = flip /\ s.flip_pending = flip_pending
  BY <1>1, SwappingFacts
<1>5. info \in SnaDri2Event
  <2>1. "FLIP" \in Type /\ TRUE \in BOOLEAN BY DEF Type
  <2> QED BY <1>1, <2>1, SwapEvent
<1>6. /\ info.draw = w /\ info.client = c /\ info.type = "FLIP" /\ ~info.queued /\ info.after = 0
  BY SwapFields
<1> HIDE DEF s, info
<1>7. /\ Sane(r, {}) /\ Added(s, r, i, info) /\ Unmoved(s, r) /\ i \in DOMAIN r.event
  BY <1>1, <1>4, <1>5, <1>6, NewEvent
<1>8. Become(t) BY <1>2
<1> HIDE DEF r
<1>9. r \in DriverState /\ r.event[i] = info BY <1>7 DEF Sane, Added
<1>10. i \in 0..Events BY <1>7, <1>9, EventType, BoundsAssumption DEF Info
<1>11. u \in DriverState BY <1>9, <1>10 DEF DriverState
<1>12. u.event = r.event /\ u.chain = r.chain /\ u.flip = r.flip /\ u.vblanks = r.vblanks
       /\ u.flip_pending = i
  BY <1>9 DEF DriverState
<1> HIDE DEF u
<1>13. Waiting(u) BY <1>6, <1>7, <1>9, <1>12 DEF Waiting
<1>14. Known(u) BY <1>7, <1>12 DEF Sane, Known
<1>15. Sane(u, {})
  <2> DEFINE N == {}
  <2>1. Sane(r, N) BY <1>7
  <2>2. u.event[i] = r.event[i] BY <1>12
  <2>3. Others(r, u, i) BY <1>12 DEF Others
  <2> HIDE DEF N
  <2>4. Sane(u, N) BY <1>7, <1>11, <1>12, <1>13, <1>14, <2>1, <2>2, <2>3, LinksSane
  <2> QED BY <2>4 DEF N
<1>16. Ahead(u) BY <1>3, <1>4, <1>7, <1>12 DEF Ahead, Unmoved
<1>17. t = [u EXCEPT !.limit[w] = 1] /\ 1 \in 1..3 OBVIOUS
<1> HIDE DEF t
<1>18. Sane(t, {}) /\ Ahead(t) BY <1>1, <1>15, <1>16, <1>17, LimitFacts
<1>19. Fine(t) BY <1>8, <1>18 DEF Fine
<1> QED BY <1>19

\* A swap of the CRTC while another user flips it.
LEMMA SwapQueueStep ==
  ASSUME Driven, NEW c, NEW w, NEW mode, SwapQueue(c, w, mode) PROVE \E t : Fine(t)
<1> DEFINE s == Swapping(w)
           one == [Blank(w, c) EXCEPT !.signal = TRUE]
           two == Swap(w, c, "FLIP")
<1>1. c \in Clients /\ w \in Windows /\ <<c, w>> \in Draws BY SwapsFacts DEF SwapQueue
<1>2. PICK i \in Fresh(s) : \E j \in Fresh(AddEvent(s, i, one)) :
        Become([WaitVblank(AddEvent(AddEvent(s, i, one), j, two), j) EXCEPT !.limit[w] = 1])
  BY DEF SwapQueue
<1> DEFINE r == AddEvent(s, i, one)
<1>3. PICK j \in Fresh(r) :
        Become([WaitVblank(AddEvent(r, j, two), j) EXCEPT !.limit[w] = 1])
  BY <1>2
<1> DEFINE u == WaitVblank(AddEvent(r, j, two), j)
           t == [u EXCEPT !.limit[w] = 1]
<1>4. Sane(s, {}) /\ Ahead(s) BY <1>1, SwappingFacts
<1>5. one \in SnaDri2Event /\ two \in SnaDri2Event
  <2>1. "FLIP" \in Type /\ TRUE \in BOOLEAN BY DEF Type
  <2> QED BY <1>1, <2>1, SwapEvent
<1>6. two.draw = w /\ two.client = c /\ ~two.queued /\ two.after = 0 BY SwapFields
<1>7. one.draw = w /\ one.client = c /\ ~one.queued /\ one.after = 0 BY DEF Blank
<1>8. Become(t) BY <1>3
<1> HIDE DEF s, one, two
<1>9. Sane(r, {}) /\ Ahead(r) BY <1>1, <1>4, <1>5, <1>7, NewEvent
<1> HIDE DEF r
<1>10. Sane(u, {}) /\ Ahead(u)
  <2>1. <<two.client, two.draw>> \in Draws BY <1>1, <1>6
  <2> QED BY <1>5, <1>6, <1>9, <2>1, AddVblank
<1> HIDE DEF u
<1>11. t = [u EXCEPT !.limit[w] = 1] /\ 1 \in 1..3 OBVIOUS
<1> HIDE DEF t
<1>12. Sane(t, {}) /\ Ahead(t) BY <1>1, <1>10, <1>11, LimitFacts
<1>13. Fine(t) BY <1>8, <1>12 DEF Fine
<1> QED BY <1>13

\* How a swap that is flipped goes on.
FlipTurns(c, w, t) ==
  \E i, o :
    /\ Added(State, t, i, o) /\ IsSwap(o, c, w) /\ o.queued
    /\ flip = 0 /\ flip_pending = 0 /\ t.flip = i /\ t.flip_pending = i
    /\ \/ o.type \in {"FLIP", "FLIP_THROTTLE"} /\ o.signal /\ t.swaps = More(w)
       \/ o.type = "FLIP_COMPLETE" /\ ~o.signal /\ t.swaps = [More(w) EXCEPT ![w] = @ - 1]
    /\ \E l \in 1..3 : (o.type = "FLIP" => l = 1) /\ t.limit = [limit EXCEPT ![w] = l]

\* A swap that is flipped.
LEMMA SwapFlipStep ==
  ASSUME Driven, NEW c, NEW w, NEW mode, SwapFlip(c, w, mode)
  PROVE  \E t : Fine(t) /\ FlipTurns(c, w, t)
<1> DEFINE s == Swapping(w)
           y == IF ~TripleBuffer THEN "FLIP"
                ELSE IF mode = "async" THEN "FLIP_COMPLETE" ELSE "FLIP_THROTTLE"
           l == IF y = "FLIP_THROTTLE" THEN 2 ELSE 1
           info == Swap(w, c, y)
<1>1. c \in Clients /\ w \in Windows /\ <<c, w>> \in Draws BY SwapsFacts DEF SwapFlip
<1>2. PICK i \in Fresh(s) :
        Become(IF y = "FLIP_COMPLETE"
               THEN Complete([Flip(AddEvent(s, i, info), i) EXCEPT !.limit[w] = l], i)
               ELSE [Flip(AddEvent(s, i, info), i) EXCEPT !.limit[w] = l])
  BY DEF SwapFlip
<1> DEFINE r == AddEvent(s, i, info)
           p == Flip(r, i)
           q == [p EXCEPT !.limit[w] = l]
           t == IF y = "FLIP_COMPLETE" THEN Complete(q, i) ELSE q
<1>3. Become(t) BY <1>2
<1>4. flip = 0 /\ flip_pending = 0 BY DEF SwapFlip, MayFlip, State
<1>5. /\ Sane(s, {}) /\ Ahead(s) /\ s.event = event /\ s.chain = chain
      /\ s.flip = flip /\ s.flip_pending = flip_pending
      /\ s.swaps = [swaps EXCEPT ![w] = @ + 1] /\ s.limit = limit
  BY <1>1, SwappingFacts
<1>6. y \in {"FLIP", "FLIP_THROTTLE", "FLIP_COMPLETE"} /\ l \in 1..3 /\ (y = "FLIP" => l = 1)
  OBVIOUS
<1> HIDE DEF s, y, l
<1>7. info \in SnaDri2Event
  <2>1. y \in Type /\ TRUE \in BOOLEAN BY <1>6 DEF Type
  <2> QED BY <1>1, <2>1, SwapEvent
<1>8. /\ info.draw = w /\ info.client = c /\ info.type = y /\ ~info.queued /\ info.signal
      /\ ~info.pending /\ info.flip_continue = "none" /\ info.after = 0
  BY SwapFields
<1> HIDE DEF info
<1>9. /\ Sane(r, {}) /\ Added(s, r, i, info) /\ Unmoved(s, r) /\ r.swaps = s.swaps
      /\ i \in DOMAIN r.event
  BY <1>1, <1>5, <1>7, <1>8, NewEvent
<1> HIDE DEF r
<1>10. r.event[i] = info /\ r.flip = 0 BY <1>4, <1>5, <1>9 DEF Added, Unmoved
<1> DEFINE o == [info EXCEPT !.queued = TRUE]
<1>11. /\ Sane(p, {}) /\ Ahead(p) /\ p.event[i] = o /\ Others(r, p, i)
       /\ p.chain = r.chain /\ p.flip = i /\ p.flip_pending = i
       /\ p.swaps = r.swaps /\ p.limit = r.limit
  <2> DEFINE N == {}
  <2>1. Sane(r, N) BY <1>9
  <2>2. ~r.event[i].queued /\ r.event[i].type # "SWAP_COMPLETE" BY <1>6, <1>8, <1>10
  <2> HIDE DEF N
  <2>3. /\ Sane(p, N) /\ Ahead(p) /\ p.event[i] = [r.event[i] EXCEPT !.queued = TRUE]
        /\ Others(r, p, i)
        /\ p.chain = r.chain /\ p.flip = i /\ p.flip_pending = i
        /\ p.swaps = r.swaps /\ p.limit = r.limit
    BY <1>9, <1>10, <2>1, <2>2, FlipFacts
  <2> QED BY <1>10, <2>3 DEF N
<1> HIDE DEF p
<1>12. o \in SnaDri2Event /\ o.draw = w /\ o.client = c /\ o.type = y /\ o.queued /\ o.signal
       /\ ~o.pending /\ o.flip_continue = "none"
  BY <1>7, <1>8 DEF SnaDri2Event
<1> HIDE DEF o
<1>13. q = [p EXCEPT !.limit[w] = l] OBVIOUS
<1> HIDE DEF q
<1>14. Sane(q, {}) /\ Ahead(q) /\ Limited(p, q, w, l) BY <1>1, <1>6, <1>11, <1>13, LimitFacts
<1>15. /\ q.event = p.event /\ q.chain = p.chain /\ q.flip = i /\ q.flip_pending = i
       /\ q.swaps = More(w) /\ q.limit = [limit EXCEPT ![w] = l]
  BY <1>5, <1>9, <1>11, <1>14 DEF Limited, Unmoved, More
<1>16. Changed(r, q, i, o) BY <1>9, <1>11, <1>15 DEF Changed, Others
<1>17. Added(s, q, i, o) BY <1>9, <1>16, AddedChanged
<1>18. Added(State, q, i, o) BY <1>5, <1>17, StateFields DEF Added, IsBehind
<1>19. \E k \in 1..3 : (y = "FLIP" => k = 1) /\ q.limit = [limit EXCEPT ![w] = k]
  BY <1>6, <1>15
<1>20. CASE y # "FLIP_COMPLETE"
  <2>1. t = q BY <1>20
  <2> HIDE DEF t
  <2>2. FlipTurns(c, w, q)
    BY <1>4, <1>6, <1>12, <1>15, <1>18, <1>19, <1>20 DEF FlipTurns, IsSwap
  <2>3. Fine(q) BY <1>3, <1>14, <2>1 DEF Fine
  <2> QED BY <2>2, <2>3
<1>21. CASE y = "FLIP_COMPLETE"
  <2> DEFINE u == Complete(q, i)
             x == [o EXCEPT !.signal = FALSE]
  <2>1. t = u BY <1>21
  <2> HIDE DEF t
  <2>2. q \in DriverState /\ i \in DOMAIN q.event /\ q.event[i] = o
    BY <1>14, <1>16 DEF Sane, Changed, Others
  <2>3. /\ Soft(q, u) /\ Others(q, u, i) /\ u.event[i] = x /\ u.limit = q.limit
        /\ u.swaps = IF o.client = None THEN q.swaps
                     ELSE [q.swaps EXCEPT ![o.draw] = @ - 1]
    BY <2>2, CompleteFacts
  <2> HIDE DEF u
  <2>4. Sane(u, {}) BY <1>14, <2>3, SoftSane
  <2>5. u.chain = q.chain /\ u.flip = i /\ u.flip_pending = i BY <1>15, <2>3 DEF Soft, Same
  <2>6. Ahead(u) BY <1>14, <1>15, <2>5 DEF Ahead
  <2>7. /\ x.draw = w /\ x.client = c /\ x.type = y /\ x.queued /\ ~x.signal
        /\ ~x.pending /\ x.flip_continue = "none"
    BY <1>12 DEF SnaDri2Event
  <2> HIDE DEF x
  <2>8. Changed(q, u, i, x) BY <2>2, <2>3, <2>5 DEF Changed
  <2>9. Added(State, u, i, x) BY <1>18, <2>8, AddedChanged
  <2>10. c # None BY <1>1, BoundsAssumption
  <2>11. u.swaps = [More(w) EXCEPT ![w] = @ - 1] BY <1>12, <1>15, <2>3, <2>10
  <2>14. \E k \in 1..3 : (x.type = "FLIP" => k = 1) /\ u.limit = [limit EXCEPT ![w] = k]
    BY <1>19, <2>3, <2>7
  <2>15. IsSwap(x, c, w) BY <2>7 DEF IsSwap
  <2>16. x.type = "FLIP_COMPLETE" BY <1>21, <2>7
  <2>12. FlipTurns(c, w, u)
    BY <1>4, <2>5, <2>7, <2>9, <2>11, <2>14, <2>15, <2>16 DEF FlipTurns
  <2>13. Fine(u) BY <1>3, <2>1, <2>4, <2>6 DEF Fine
  <2> QED BY <2>12, <2>13
<1> QED BY <1>20, <1>21

\* How a blit is taken up by the one that is pending.
BlitTurns(w, t) ==
  \E h \in DOMAIN event, b \in BOOLEAN, l \in 1..3 :
    /\ event[h].draw = w /\ event[h].type = "SWAP_COMPLETE" /\ ~IsBehind(State, h)
    /\ Changed(State, t, h, [event[h] EXCEPT !.pending = TRUE, !.sync = b])
    /\ t.flip = flip /\ t.flip_pending = flip_pending
    /\ t.limit = [limit EXCEPT ![w] = l]
    /\ t.swaps = IF event[h].pending THEN [More(w) EXCEPT ![w] = @ - 1] ELSE More(w)

\* The head of a chain is behind no other.
LEMMA HeadFacts ==
  ASSUME Driven, NEW w \in Windows, chain[w] # <<>>
  PROVE  LET h == Head(chain[w])
         IN  /\ h \in DOMAIN event /\ event[h].draw = w /\ ~IsBehind(State, h)
             /\ event[h].client # None
<1> DEFINE s == State
           q == chain[w]
           h == Head(q)
<1>1. s.event = event /\ s.chain = chain BY StateFields
<1>2. s \in DriverState /\ Chained(s) /\ Distinct(s) /\ Owned(s) BY DEF Driven, Sane
<1> HIDE DEF s
<1>3. q \in Seq(Info) BY <1>1, <1>2, StateTypes
<1>4. Len(q) \in Nat /\ 1 \in 1..Len(q) /\ q[1] = h BY <1>3
<1>5. h \in DOMAIN event /\ event[h].draw = w BY <1>1, <1>2, <1>4 DEF Chained
<1> HIDE DEF h
<1>6. ~IsBehind(s, h)
  <2>1. ASSUME NEW v \in Windows, NEW k \in 2..Len(s.chain[v]), s.chain[v][k] = h PROVE FALSE
    <3>1. Len(s.chain[v]) \in Nat BY <1>2, StateTypes
    <3>2. k \in 1..Len(s.chain[v]) /\ k # 1 BY <2>1, <3>1
    <3>3. event[h].draw = v BY <1>1, <1>2, <2>1, <3>2 DEF Chained
    <3>4. v = w BY <1>5, <3>3
    <3>5. k = 1 BY <1>1, <1>2, <1>4, <2>1, <3>2, <3>4 DEF Distinct
    <3> QED BY <3>2, <3>5
  <2> QED BY <2>1 DEF IsBehind
<1>7. event[h].client # None
  <2>1. w # None BY BoundsAssumption
  <2>2. <<event[h].client, w>> \in Draws BY <1>1, <1>2, <1>5, <2>1 DEF Owned
  <2> QED BY <2>2, BoundsAssumption
<1> QED BY <1>5, <1>6, <1>7 DEF h, s

\* A swap that is copied at once.
LEMMA SwapBlitStep ==
  ASSUME Driven, NEW c, NEW w, NEW mode, SwapBlit(c, w, mode)
  PROVE  \E t : Fine(t) /\ (QueueTurns(c, w, t) \/ BlitTurns(w, t))
<1> DEFINE s == Swapping(w)
           b == mode = "next"
           l == IF b THEN 2 ELSE 3
           y == "SWAP_COMPLETE"
           o == Swap(w, c, y)
           info == [o EXCEPT !.sync = b]
           h == Head(chain[w])
           elided == event[h].pending /\ (~b \/ ~event[h].sync)
           merge == event[h].type = "SWAP_COMPLETE" /\ (~event[h].pending \/ elided)
           told == IF elided THEN Told(s, event[h]) ELSE s
           end == [told EXCEPT !.event[h] = [@ EXCEPT !.pending = TRUE, !.sync = b],
                               !.limit[w] = l]
<1>1. c \in Clients /\ w \in Windows /\ <<c, w>> \in Draws BY SwapsFacts DEF SwapBlit
<1>2. \/ chain[w] = <<>> /\ \E i \in Fresh(s) :
           Become([WaitVblank(AddEvent(s, i, info), i) EXCEPT !.limit[w] = l])
      \/ chain[w] # <<>> /\ merge /\ Become(end)
      \/ chain[w] # <<>> /\ ~merge /\ \E i \in Fresh(s) : Become(AddEvent(s, i, info))
  BY DEF SwapBlit
<1>3. b \in BOOLEAN /\ l \in 1..3 /\ y \in {"FLIP", "SWAP", "SWAP_COMPLETE"} /\ y # "FLIP"
  OBVIOUS
<1>4. info \in SnaDri2Event
  <2>1. y \in Type /\ TRUE \in BOOLEAN BY DEF Type
  <2> QED BY <1>1, <1>3, <2>1, SwapEvent
<1>5. CASE chain[w] = <<>> /\ \E i \in Fresh(s) :
             Become([WaitVblank(AddEvent(s, i, info), i) EXCEPT !.limit[w] = l])
  <2>1. PICK i \in Fresh(Swapping(w)) :
          Become([WaitVblank(AddEvent(Swapping(w), i, info), i) EXCEPT !.limit[w] = l])
    BY <1>5
  <2>2. info = [Swap(w, c, y) EXCEPT !.sync = b] OBVIOUS
  <2> HIDE DEF b, l, y, info
  <2> QED BY <1>1, <1>3, <2>1, <2>2, QueueStep
<1>6. /\ Sane(s, {}) /\ Ahead(s) /\ s.event = event /\ s.chain = chain
      /\ s.flip = flip /\ s.flip_pending = flip_pending
      /\ s.swaps = [swaps EXCEPT ![w] = @ + 1] /\ s.limit = limit
  BY <1>1, SwappingFacts
<1>7. CASE chain[w] # <<>> /\ ~merge /\ \E i \in Fresh(s) : Become(AddEvent(s, i, info))
  <2>1. PICK i \in Fresh(s) : Become(AddEvent(s, i, info)) BY <1>7
  <2> DEFINE t == AddEvent(s, i, info)
  <2>2. /\ o.draw = w /\ o.client = c /\ o.type = y
        /\ ~o.queued /\ o.signal /\ ~o.pending /\ o.flip_continue = "none" /\ o.after = 0
    BY SwapFields
  <2>3. o \in SnaDri2Event
    <3>1. y \in Type /\ TRUE \in BOOLEAN BY DEF Type
    <3> QED BY <1>1, <3>1, SwapEvent
  <2> HIDE DEF o, y, b, s
  <2>4. /\ info.draw = w /\ info.client = c /\ info.type = y
        /\ ~info.queued /\ info.signal /\ ~info.pending /\ info.flip_continue = "none"
        /\ info.after = 0
    BY <2>2, <2>3 DEF SnaDri2Event
  <2> HIDE DEF info
  <2>5. /\ Sane(t, {}) /\ Ahead(t) /\ Added(s, t, i, info) /\ Unmoved(s, t) /\ t.swaps = s.swaps
    BY <1>1, <1>4, <1>6, <2>4, NewEvent
  <2>6. Become(t) BY <2>1
  <2> HIDE DEF t
  <2>7. Added(State, t, i, info) BY <1>6, <2>5, StateFields DEF Added, IsBehind
  <2>8. t.flip = flip /\ t.flip_pending = flip_pending /\ t.limit = limit /\ t.swaps = More(w)
    BY <1>6, <2>5 DEF Unmoved, More
  <2>9. IsSwap(info, c, w) BY <2>4 DEF IsSwap
  <2>10. info.type = "SWAP_COMPLETE" BY <2>4 DEF y
  <2>11. QueueTurns(c, w, t) BY <1>7, <2>4, <2>7, <2>8, <2>9, <2>10 DEF QueueTurns
  <2>12. Fine(t) BY <2>5, <2>6 DEF Fine
  <2> QED BY <2>11, <2>12
<1>8. CASE chain[w] # <<>> /\ merge /\ Become(end)
  <2> DEFINE k == event[h]
             p == [k EXCEPT !.pending = TRUE, !.sync = b]
             u == With(told, h, p)
             t == [u EXCEPT !.limit[w] = l]
  <2>1. h \in DOMAIN event /\ event[h].draw = w /\ ~IsBehind(State, h) /\ event[h].client # None
    BY <1>1, <1>8, HeadFacts
  <2>2. elided <=> k.pending BY <1>8
  <2>3. k.type = "SWAP_COMPLETE" BY <1>8
  <2> HIDE DEF s, merge, elided, h
  <2>4. s \in DriverState /\ h \in DOMAIN s.event BY <1>6, <2>1 DEF Sane
  <2>5. k \in SnaDri2Event BY <1>6, <2>4, EventType
  <2>6. /\ p \in SnaDri2Event /\ p.draw = k.draw /\ p.client = k.client
        /\ p.after = k.after /\ p.queued = k.queued /\ p.type = k.type
    BY <1>3, <2>5 DEF SnaDri2Event
  <2>7. /\ Soft(s, told) /\ told.event = s.event /\ told.limit = s.limit
        /\ told.swaps = IF k.pending THEN [s.swaps EXCEPT ![w] = @ - 1] ELSE s.swaps
    <3>1. CASE elided
      <4>1. told = Told(s, k) BY <3>1
      <4> HIDE DEF k, told
      <4>2. k.draw = w /\ k.client # None /\ k.pending BY <2>1, <2>2, <3>1 DEF k
      <4> QED BY <2>4, <4>1, <4>2, ToldFacts
    <3>2. CASE ~elided
      <4>1. told = s BY <3>2
      <4> QED BY <2>2, <2>4, <3>2, <4>1, SoftSelf
    <3> QED BY <3>1, <3>2
  <2>8. told \in DriverState /\ told.chain = s.chain /\ told.flip = s.flip
        /\ told.flip_pending = s.flip_pending
    BY <2>7 DEF Soft, Same
  <2>9. end = [[told EXCEPT !.event[h] = [told.event[h] EXCEPT !.pending = TRUE, !.sync = b]]
                 EXCEPT !.limit[w] = l]
    OBVIOUS
  <2>10. told.event[h] = k BY <1>6, <2>7
  <2>11. end = t BY <2>9, <2>10 DEF With
  <2> HIDE DEF told, end, p
  <2>12. Soft(told, u)
    <3>1. h \in DOMAIN told.event BY <2>4, <2>7
    <3> QED BY <2>6, <2>8, <2>10, <3>1, SoftWith
  <2>13. /\ u \in DriverState /\ u.event[h] = p /\ Others(told, u, h) /\ Same(told, u)
         /\ u.swaps = told.swaps /\ u.limit = told.limit
    <3>1. h \in DOMAIN told.event BY <2>4, <2>7
    <3> QED BY <2>6, <2>8, <3>1, WithFacts
  <2> HIDE DEF u
  <2>14. Soft(s, u) BY <2>7, <2>12, SoftTwice
  <2>15. Sane(u, {}) BY <1>6, <2>14, SoftSane
  <2>16. Ahead(u) BY <1>6, <2>14 DEF Soft, Same, Ahead
  <2>17. t = [u EXCEPT !.limit[w] = l] OBVIOUS
  <2> HIDE DEF t
  <2>18. Sane(t, {}) /\ Ahead(t) /\ Limited(u, t, w, l)
    BY <1>1, <1>3, <2>15, <2>16, <2>17, LimitFacts
  <2>19. t.flip = flip /\ t.flip_pending = flip_pending /\ t.limit = [limit EXCEPT ![w] = l]
         /\ t.chain = chain /\ t.event = u.event /\ t.swaps = told.swaps
    BY <1>6, <2>7, <2>8, <2>13, <2>18 DEF Limited, Same
  <2>20. Changed(State, t, h, p)
    BY <1>6, <2>1, <2>7, <2>13, <2>19, StateFields DEF Changed, Others
  <2>21. t.swaps = IF event[h].pending THEN [More(w) EXCEPT ![w] = @ - 1] ELSE More(w)
    BY <1>6, <2>7, <2>19 DEF More
  <2>22. Changed(State, t, h, [event[h] EXCEPT !.pending = TRUE, !.sync = b])
    BY <2>20 DEF p
  <2>23. BlitTurns(w, t)
    <3> HIDE DEF b, l
    <3> QED BY <1>3, <2>1, <2>3, <2>19, <2>21, <2>22 DEF BlitTurns
  <2>24. Fine(t) BY <1>8, <2>11, <2>18 DEF Fine
  <2> QED BY <2>23, <2>24
<1> QED BY <1>2, <1>5, <1>7, <1>8

-----------------------------------------------------------------------------
(* Clients and windows that disappear, and what the display does.            *)

\* A client goes.
LEMMA GoneClientStep ==
  ASSUME OneClient, Driven, NEW c \in Clients, ClientGone(c)
  PROVE  \E t : Fine(t) /\ t = GoneFrom(c)
<1> DEFINE t == GoneFrom(c)
<1>1. Become(t) BY DEF ClientGone, GoneFrom
<1> HIDE DEF t
<1>2. Sane(t, {}) /\ Ahead(t) BY GoneFacts DEF t, Driven
<1>3. Fine(t) BY <1>1, <1>2 DEF Fine
<1> QED BY <1>3 DEF t

\* The events of a window are dropped, with the swaps of it.
LEMMA UncoupledStep ==
  ASSUME Driven, NEW w \in Windows, NEW n \in Int,
         Become([Uncoupled(w) EXCEPT !.swaps[w] = n])
  PROVE  Driven'
<1> DEFINE s == Uncoupled(w)
           m == [s.swaps EXCEPT ![w] = n]
           t == [s EXCEPT !.swaps = m]
<1>1. Sane(s, {}) /\ Ahead(s) BY UncoupledFacts DEF Driven
<1>2. Become(t) OBVIOUS
<1> HIDE DEF s
<1>3. s \in DriverState BY <1>1 DEF Sane
<1>4. m \in [Windows -> Int] /\ s.limit \in [Windows -> 1..3] BY <1>3, StateTypes
<1> HIDE DEF m
<1>5. Soft(s, t) BY <1>3, <1>4, SoftCounts
<1> HIDE DEF t
<1>6. Sane(t, {}) BY <1>1, <1>5, SoftSane
<1>7. Ahead(t) BY <1>1, <1>5 DEF Soft, Same, Ahead
<1>8. Fine(t) BY <1>2, <1>6, <1>7 DEF Fine
<1> QED BY <1>8, FineDriven

\* What an event owes.
LEMMA OwesInt == ASSUME NEW o PROVE Owes(o) \in 0..2
BY DEF Owes

\* A window is destroyed.
LEMMA DestroyStep == ASSUME Driven, NEW w \in Windows, DestroyWindow(w) PROVE Driven'
<1>1. Become([Uncoupled(w) EXCEPT !.swaps[w] = 0]) BY DEF DestroyWindow
<1> QED BY <1>1, UncoupledStep

\* A window is redirected.
LEMMA DecoupleStep == ASSUME Driven, NEW w \in Windows, DecoupleWindow(w) PROVE Driven'
<1> DEFINE g == [i \in Info |-> IF Contains(chain[w], i) THEN Owes(event[i]) ELSE 0]
           s == Uncoupled(w)
           n == s.swaps[w] - Total(g)
<1>1. Become([s EXCEPT !.swaps[w] = @ - Total(g)]) BY DEF DecoupleWindow
<1>2. Total(g) \in Int
  <2>1. \A i \in Info : g[i] \in Int BY OwesInt
  <2>2. g \in [Info -> Int] BY <2>1
  <2> HIDE DEF g
  <2>3. PICK f \in [0..Events -> Int] : Total(g) = f[Events] BY <2>2, TotalSums
  <2>4. Events \in 0..Events BY BoundsAssumption
  <2> QED BY <2>3, <2>4
<1> HIDE DEF g
<1>3. s.swaps[w] \in Int
  <2>1. s \in DriverState BY UncoupledFacts DEF Driven, Sane
  <2> QED BY <2>1, StateTypes
<1>4. n \in Int BY <1>2, <1>3
<1>5. Become([s EXCEPT !.swaps[w] = n])
  <2>1. [s EXCEPT !.swaps[w] = @ - Total(g)] = [s EXCEPT !.swaps[w] = n] OBVIOUS
  <2> HIDE DEF s
  <2> QED BY <1>1, <2>1
<1> HIDE DEF n
<1> QED BY <1>4, <1>5, UncoupledStep

\* A flip of the Present extension, and the end of it.
LEMMA PresentStep == ASSUME Driven, PresentFlip \/ PresentFlipped PROVE Driven'
<1> DEFINE s == State
           t == [s EXCEPT !.flip = flip']
<1>1. /\ flip \in {0, Present} /\ flip' \in {0, Present}
      /\ event' = event /\ chain' = chain /\ flip_pending' = flip_pending
      /\ vblanks' = vblanks /\ swaps' = swaps /\ limit' = limit
  BY BoundsAssumption DEF PresentFlip, PresentFlipped, server, Present
<1>2. State' = t BY <1>1 DEF State
<1>3. Sane(s, {}) /\ Ahead(s) /\ s \in DriverState BY DEF Driven, Sane
<1>4. /\ s.event = event /\ s.chain = chain /\ s.flip = flip /\ s.flip_pending = flip_pending
      /\ s.vblanks = vblanks
  BY StateFields
<1> HIDE DEF s
<1>5. 0 \notin Info /\ Present \notin Info /\ 0 \in 0..Present /\ Present \in 0..Present
  BY BoundsAssumption DEF Info, Present
<1>6. /\ t \in DriverState /\ t.event = s.event /\ t.chain = s.chain /\ t.flip = flip'
      /\ t.flip_pending = s.flip_pending /\ t.vblanks = s.vblanks
  BY <1>1, <1>3, <1>5 DEF DriverState
<1> HIDE DEF t
<1>7. s.flip_pending = 0 BY <1>1, <1>3, <1>4, <1>5 DEF Ahead
<1>8. Chained(t) BY <1>3, <1>6 DEF Sane, Chained
<1>9. Distinct(t) BY <1>3, <1>6 DEF Sane, Distinct
<1>10. Linked(t, {}) BY <1>3, <1>6 DEF Sane, Linked
<1>11. Owned(t) BY <1>3, <1>6 DEF Sane, Owned
<1>12. Known(t)
  <2>1. t.flip \notin t.vblanks BY <1>1, <1>3, <1>5, <1>6, StateTypes
  <2>2. s.vblanks \cup ({s.flip} \ {0, Present}) = {j \in DOMAIN s.event : s.event[j].queued}
    BY <1>3 DEF Sane, Known
  <2>3. {t.flip} \ {0, Present} = {s.flip} \ {0, Present} BY <1>1, <1>4, <1>6
  <2> QED BY <1>6, <2>1, <2>2, <2>3 DEF Known
<1>13. Waiting(t) /\ Ahead(t) BY <1>6, <1>7 DEF Waiting, Ahead
<1>14. Sane(t, {}) BY <1>6, <1>8, <1>9, <1>10, <1>11, <1>12, <1>13 DEF Sane
<1> QED BY <1>2, <1>13, <1>14 DEF Driven

\* The driver's part of the state is left alone.
LEMMA StillStep ==
  ASSUME Driven, UNCHANGED <<event, chain, flip_pending, flip, vblanks, swaps, limit>>
  PROVE  Driven'
<1>1. State' = State BY DEF State
<1> QED BY <1>1 DEF Driven

-----------------------------------------------------------------------------
(* The invariant.                                                            *)

\* It holds at first.
LEMMA InitInv == Init => Inv
<1>1. SUFFICES ASSUME Init PROVE Inv OBVIOUS
<1> DEFINE s == State
<1>2. /\ s.event = <<>> /\ s.flip_pending = 0 /\ s.flip = 0 /\ s.vblanks = {}
      /\ s.chain = [w \in Windows |-> <<>>] /\ s.swaps = [w \in Windows |-> 0]
      /\ s.limit = [w \in Windows |-> 1]
  BY <1>1, StateFields DEF Init
<1>3. s = [event |-> s.event, chain |-> s.chain, flip_pending |-> s.flip_pending,
           flip |-> s.flip, vblanks |-> s.vblanks, swaps |-> s.swaps, limit |-> s.limit]
  BY StateFields DEF State
<1> HIDE DEF s
<1>4. DOMAIN s.event = {} /\ s.event \in EventMap
  <2> DEFINE e == <<>>
  <2>1. e \in [1..0 -> Info] /\ 1..0 = {} OBVIOUS
  <2>2. DOMAIN e = {} /\ e = [j \in DOMAIN e |-> e[j]] BY <2>1
  <2>3. s.event = e BY <1>2
  <2> HIDE DEF e
  <2>4. e \in EventMap BY <2>2, EventMaps
  <2> QED BY <2>2, <2>3, <2>4
<1>5. \A w \in Windows : s.chain[w] = <<>> /\ Len(s.chain[w]) = 0 BY <1>2
<1>6. s \in DriverState
  <2>1. 0 \in 0..Events /\ 0 \in 0..Present BY BoundsAssumption DEF Present
  <2>2. s.chain \in [Windows -> Seq(Info)] /\ s.swaps \in [Windows -> Int]
        /\ s.limit \in [Windows -> 1..3]
    BY <1>2
  <2>3. s.flip_pending \in 0..Events /\ s.flip \in 0..Present /\ s.vblanks \in SUBSET Info
    BY <1>2, <2>1
  <2> QED BY <1>3, <1>4, <2>2, <2>3 DEF DriverState
<1>7. Chained(s) /\ Distinct(s) BY <1>5 DEF Chained, Distinct
<1>8. Linked(s, {}) /\ Owned(s) BY <1>4 DEF Linked, Owned
<1>9. Known(s) /\ Waiting(s) /\ Ahead(s) BY <1>2, <1>4 DEF Known, Waiting, Ahead
<1>10. Driven BY <1>6, <1>7, <1>8, <1>9 DEF Driven, Sane, s
<1>11. Around BY <1>1, BoundsAssumption DEF Init, Around
<1> QED BY <1>10, <1>11 DEF Inv

\* Every step leads to a sane state of the driver.
LEMMA NextDriven == ASSUME OneClient, Driven, Next PROVE Driven'
<1>1. ASSUME NEW i \in Info, VblankEvent(i) PROVE Driven'
  <2>1. CASE VblankGone(i) BY <2>1, GoneStep, FineDriven
  <2>2. CASE VblankSwap(i) BY <2>2, SwapStep, FineDriven
  <2>3. CASE VblankComplete(i) BY <2>3, CompleteStep, FineDriven
  <2>4. CASE VblankMsc(i) BY <2>4, MscStep, FineDriven
  <2> QED BY <1>1, <2>1, <2>2, <2>3, <2>4 DEF VblankEvent
<1>2. ASSUME FlipEvent PROVE Driven'
  <2>1. PICK i \in Info : FlipEventChain(i) \/ FlipEventLast(i) \/ FlipEventContinue(i)
    BY <1>2 DEF FlipEvent
  <2>2. CASE FlipEventChain(i) BY <2>2, ChainStep, FineDriven
  <2>3. CASE FlipEventLast(i) BY <2>3, LastStep, FineDriven
  <2>4. CASE FlipEventContinue(i) BY <2>4, ContinueStep, FineDriven
  <2> QED BY <2>1, <2>2, <2>3, <2>4
<1>3. ASSUME NEW c \in Clients, NEW w \in Windows, Request(c, w) PROVE Driven'
  <2>1. ASSUME NEW mode \in Modes, SwapContinue(c, w, mode) PROVE Driven'
    BY <2>1, ContinuedStep, FineDriven
  <2>2. ASSUME NEW mode \in Modes, SwapWait(c, w, mode) PROVE Driven'
    BY <2>2, SwapWaitStep, FineDriven
  <2>3. ASSUME NEW mode \in Modes, SwapQueue(c, w, mode) PROVE Driven'
    BY <2>3, SwapQueueStep, FineDriven
  <2>4. ASSUME NEW mode \in Modes, SwapFlip(c, w, mode) PROVE Driven'
    BY <2>4, SwapFlipStep, FineDriven
  <2>5. ASSUME NEW mode \in Modes, SwapBlit(c, w, mode) PROVE Driven'
    BY <2>5, SwapBlitStep, FineDriven
  <2>6. CASE SwapLater(c, w) BY <2>6, LaterStep, FineDriven
  <2>7. CASE SwapSkip(c, w) BY <2>7, SkipStep, FineDriven
  <2>8. CASE WaitMsc(c, w) BY <2>8, WaitStep, FineDriven
  <2> QED BY <1>3, <2>1, <2>2, <2>3, <2>4, <2>5, <2>6, <2>7, <2>8 DEF Request
<1>4. ASSUME NEW c \in Clients, ClientGone(c) PROVE Driven'
  BY <1>4, GoneClientStep, FineDriven
<1>5. ASSUME NEW w \in Windows, DestroyWindow(w) \/ DecoupleWindow(w) PROVE Driven'
  BY <1>5, DestroyStep, DecoupleStep
<1>6. CASE SwitchCrtc \/ Restack BY <1>6, StillStep DEF SwitchCrtc, Restack, driver, server
<1>7. CASE PresentFlip \/ PresentFlipped BY <1>7, PresentStep
<1> QED BY <1>1, <1>2, <1>3, <1>4, <1>5, <1>6, <1>7 DEF Next

\* The display, the server and the world stay within their bounds.
LEMMA NextAround == ASSUME Around, Next PROVE Around'
<1>1. ASSUME UNCHANGED <<on, top, blocked, gone, world>> PROVE Around' BY <1>1 DEF Around
<1>2. ASSUME NEW i \in Info, VblankEvent(i) PROVE Around'
  <2>1. CASE VblankMsc(i) BY <2>1 DEF VblankMsc, Around
  <2>2. CASE ~VblankMsc(i)
    BY <1>1, <1>2, <2>2 DEF VblankEvent, VblankGone, VblankSwap, VblankComplete
  <2> QED BY <2>1, <2>2
<1>3. ASSUME FlipEvent PROVE Around'
  BY <1>1, <1>3 DEF FlipEvent, FlipEventChain, FlipEventLast, FlipEventContinue
<1>4. ASSUME NEW c \in Clients, NEW w \in Windows, Request(c, w) PROVE Around'
  <2>1. CASE WaitMsc(c, w) BY <2>1 DEF WaitMsc, Around
  <2>2. ASSUME NEW mode \in Modes,
               SwapContinue(c, w, mode) \/ SwapWait(c, w, mode) \/ SwapQueue(c, w, mode)
        PROVE  Around'
    BY <1>1, <2>2 DEF SwapContinue, SwapWait, SwapQueue
  <2>3. ASSUME NEW mode \in Modes, SwapFlip(c, w, mode) \/ SwapBlit(c, w, mode) PROVE Around'
    BY <1>1, <2>3 DEF SwapFlip, SwapBlit
  <2>4. CASE SwapLater(c, w) \/ SwapSkip(c, w) BY <1>1, <2>4 DEF SwapLater, SwapSkip
  <2> QED BY <1>4, <2>1, <2>2, <2>3, <2>4 DEF Request
<1>5. ASSUME NEW c \in Clients, ClientGone(c) PROVE Around' BY <1>5 DEF ClientGone, Around
<1>6. ASSUME NEW w \in Windows, DestroyWindow(w) PROVE Around'
  BY <1>6 DEF DestroyWindow, Around
<1>7. ASSUME NEW w \in Windows, DecoupleWindow(w) PROVE Around'
  BY <1>1, <1>7 DEF DecoupleWindow
<1>8. CASE SwitchCrtc BY <1>8 DEF SwitchCrtc, server, Around
<1>9. CASE Restack BY <1>9 DEF Restack, server, Around
<1>10. CASE PresentFlip \/ PresentFlipped
  BY <1>1, <1>10 DEF PresentFlip, PresentFlipped, server
<1> QED BY <1>2, <1>3, <1>4, <1>5, <1>6, <1>7, <1>8, <1>9, <1>10 DEF Next

\* Inv is inductive.
LEMMA Inductive == ASSUME OneClient PROVE Spec => []Inv
<1>1. Inv /\ [Next]_vars => Inv'
  <2>1. ASSUME Inv, Next PROVE Inv' BY <2>1, NextDriven, NextAround DEF Inv
  <2>2. ASSUME Inv, UNCHANGED vars PROVE Inv'
    <3>1. Driven' BY <2>2, StillStep DEF Inv, vars, driver, server
    <3>2. Around' BY <2>2 DEF Inv, Around, vars, server
    <3> QED BY <3>1, <3>2 DEF Inv
  <2> QED BY <2>1, <2>2
<1> QED BY <1>1, InitInv, PTL DEF Spec

-----------------------------------------------------------------------------
(* What the runs check of the driver.                                        *)

\* The types follow from it.
LEMMA InvType == Inv => TypeOK
<1>1. SUFFICES ASSUME Inv PROVE TypeOK OBVIOUS
<1> DEFINE s == State
<1>2. s \in DriverState /\ Chained(s) /\ Waiting(s) BY <1>1 DEF Inv, Driven, Sane
<1>3. /\ s.event = event /\ s.chain = chain /\ s.flip = flip /\ s.flip_pending = flip_pending
      /\ s.vblanks = vblanks /\ s.swaps = swaps /\ s.limit = limit
  BY StateFields
<1> HIDE DEF s
<1>4. /\ DOMAIN event \subseteq Info /\ chain \in [Windows -> Seq(Info)]
      /\ \A w \in Windows : chain[w] \in Seq(Info) /\ Len(chain[w]) \in Nat
      /\ flip \in 0..Present /\ vblanks \subseteq Info
      /\ swaps \in [Windows -> Int] /\ limit \in [Windows -> 1..3]
  BY <1>2, <1>3, StateTypes
<1>5. \A i \in DOMAIN event : event[i] \in SnaDri2Event BY <1>2, <1>3, EventType
<1>6. flip_pending \in {0} \cup DOMAIN event BY <1>2, <1>3 DEF Waiting
<1>7. chain \in [Windows -> Seq(DOMAIN event)]
  <2>1. ASSUME NEW w \in Windows PROVE chain[w] \in Seq(DOMAIN event)
    <3> DEFINE q == chain[w]
    <3>1. q \in Seq(Info) /\ \A k \in 1..Len(q) : q[k] \in DOMAIN event
      BY <1>2, <1>3, <1>4 DEF Chained
    <3> HIDE DEF q
    <3>2. q \in [1..Len(q) -> DOMAIN event] /\ Len(q) \in Nat BY <3>1
    <3>3. q \in Seq(DOMAIN event) BY <3>2
    <3> QED BY <3>3 DEF q
  <2> QED BY <1>4, <2>1
<1> QED BY <1>1, <1>4, <1>5, <1>6, <1>7 DEF TypeOK, Inv, Around

\* Type correctness: every event is one that was allocated, in its window's chain
\* or waiting, and the counts of the server are numbers.
THEOREM TypeCorrect == ASSUME OneClient PROVE Spec => []TypeOK
BY Inductive, InvType, PTL

\* info->queued is true of exactly the events that the kernel has a pointer to,
\* each once, whatever the clients, the windows and the display do: none is freed
\* under the kernel (sna_dri2.c:1750, 1881 and 2004).
THEOREM KernelAlwaysKnows == ASSUME OneClient PROVE Spec => []KernelKnows
<1>1. Inv => KernelKnows
  <2>1. ASSUME Inv PROVE Known(State) BY <2>1 DEF Inv, Driven, Sane
  <2> QED BY <2>1, StateFields DEF Known, KernelKnows
<1> QED BY <1>1, Inductive, PTL

\* What waits in sna->dri2.flip_pending has a flip of DRI2 ahead of it, whose
\* completion starts it.
THEOREM FlipAlwaysAhead == ASSUME OneClient PROVE Spec => []FlipAhead
<1>1. Inv => FlipAhead
  <2>1. ASSUME Inv PROVE Ahead(State) BY <2>1 DEF Inv, Driven
  <2> QED BY <2>1, StateFields DEF Ahead, FlipAhead
<1> QED BY <1>1, Inductive, PTL

\* sna_dri2_client_gone leaves no event that names a successor in the chain it was
\* taken out of, so that an event that ends later starts none that is gone.
THEOREM NeverOrphaned == ASSUME OneClient PROVE Spec => []NoOrphanChain
<1>1. Inv => NoOrphanChain
  <2>1. ASSUME Inv PROVE Owned(State) BY <2>1 DEF Inv, Driven, Sane
  <2> QED BY <2>1, StateFields DEF Owned, NoOrphanChain
<1> QED BY <1>1, Inductive, PTL

-----------------------------------------------------------------------------
(* The count of the swaps, while what loses completions does not go on.      *)

\* What an event is, with f when it is the flip and m the limit of its window.
Shaped(o, f, m) ==
  /\ o.draw = Full
  /\ o.type \in {"SWAP", "FLIP"} => o.signal
  /\ o.pending => o.type = "SWAP_COMPLETE"
  /\ o.type = "WAITMSC" => ~o.signal
  /\ o.flip_continue # "none" => f /\ o.type # "FLIP"
  /\ o.type = "FLIP" => m = 1
  /\ IF f THEN o.type \in {"FLIP", "FLIP_THROTTLE", "FLIP_COMPLETE"}
     ELSE o.type \notin {"FLIP_THROTTLE", "FLIP_COMPLETE"}
\* A blit that is not begun owes one completion.
Due(o) == o.type = "SWAP_COMPLETE" /\ ~o.queued => o.signal /\ ~o.pending

\* What an event, and all of them, owe.
Of(s, i) == IF i \in DOMAIN s.event THEN OwedFor(s.event[i]) ELSE 0
Sum(s) == Total([i \in Info |-> Of(s, i)])

\* The count is even with the events; these are shaped as they are by the
\* requests of a client that waits its turn.
Even(s) ==
  /\ \A i \in DOMAIN s.event : Shaped(s.event[i], i = s.flip, s.limit[Full])
  /\ \A i \in DOMAIN s.event : IsBehind(s, i) => Due(s.event[i])
  /\ s.flip_pending = s.flip
  /\ s.swaps[Full] = Sum(s)
\* It is so while there is one window, and a client to draw to it.
Evenly == Calm /\ Drawn(Full) => Even(State)

\* What an event owes is no more than three.
LEMMA OfInt == ASSUME NEW s, NEW i PROVE Of(s, i) \in 0..3
<1> DEFINE o == s.event[i]
<1>1. Owes(o) \in 0..2 BY OwesInt
<1> HIDE DEF o
<1>2. OwedFor(o) \in 0..3 BY <1>1 DEF OwedFor
<1> QED BY <1>2 DEF Of, o

\* Two events change what is owed.
LEMMA SumChanges ==
  ASSUME NEW s, NEW t, NEW i \in Info, NEW n \in Info,
         \A j \in Info \ {i, n} : Of(t, j) = Of(s, j)
  PROVE  /\ Sum(s) \in Int
         /\ Sum(t) = Sum(s) + (Of(t, i) - Of(s, i))
                       + (IF n = i THEN 0 ELSE Of(t, n) - Of(s, n))
<1> DEFINE f == [j \in Info |-> Of(s, j)]
           h == [j \in Info |-> IF j = i THEN Of(t, j) ELSE Of(s, j)]
           g == [j \in Info |-> Of(t, j)]
<1>1. f \in [Info -> Int] /\ g \in [Info -> Int] /\ h \in [Info -> Int]
  <2>1. \A j \in Info : Of(s, j) \in Int /\ Of(t, j) \in Int BY OfInt
  <2> QED BY <2>1
<1>2. \A j \in Info : f[j] = Of(s, j) /\ g[j] = Of(t, j)
                      /\ h[j] = IF j = i THEN Of(t, j) ELSE Of(s, j)
  OBVIOUS
<1>3. Sum(s) = Total(f) /\ Sum(t) = Total(g) BY DEF Sum
<1> HIDE DEF f, g, h
<1>4. Total(f) \in Int /\ Total(h) = Total(f) + (h[i] - f[i]) BY <1>1, <1>2, TotalChanges
<1>5. Total(g) = Total(h) + (g[n] - h[n]) BY <1>1, <1>2, TotalChanges
<1>6. Of(s, i) \in Int /\ Of(t, i) \in Int /\ Of(s, n) \in Int /\ Of(t, n) \in Int BY OfInt
<1>7. h[i] - f[i] = Of(t, i) - Of(s, i) BY <1>2
<1>8. g[n] - h[n] = IF n = i THEN 0 ELSE Of(t, n) - Of(s, n) BY <1>2, <1>6
<1> DEFINE d == Of(t, i) - Of(s, i)
           e == IF n = i THEN 0 ELSE Of(t, n) - Of(s, n)
<1>9. d \in Int /\ e \in Int BY <1>6
<1> HIDE DEF d, e
<1>10. Sum(t) = Sum(s) + d + e BY <1>3, <1>4, <1>5, <1>7, <1>8, <1>9 DEF d, e
<1> QED BY <1>3, <1>4, <1>10 DEF d, e

\* The events other than i and n are as they were.
But(s, t, i, n) ==
  \A j \in Info \ {i, n} :
    /\ j \in DOMAIN t.event <=> j \in DOMAIN s.event
    /\ j \in DOMAIN s.event => t.event[j] = s.event[j]
    /\ (j = t.flip) <=> (j = s.flip)
    /\ IsBehind(t, j) => IsBehind(s, j)
\* What is to show of the event i.
Keeps(t, i) ==
  i \in DOMAIN t.event => /\ Shaped(t.event[i], i = t.flip, t.limit[Full])
                          /\ IsBehind(t, i) => Due(t.event[i])
\* A flip may keep the limit that it has.
Limits(s, t) ==
  t.limit = s.limit \/ \A j \in DOMAIN s.event : s.event[j].type # "FLIP"

\* Two events change, and the count with them.
LEMMA EvenStep ==
  ASSUME NEW s, NEW t, Even(s), NEW i \in Info, NEW n \in Info,
         DOMAIN t.event \subseteq Info, But(s, t, i, n), Keeps(t, i), Keeps(t, n), Limits(s, t),
         t.flip_pending = t.flip,
         t.swaps[Full] = s.swaps[Full] + (Of(t, i) - Of(s, i))
                           + (IF n = i THEN 0 ELSE Of(t, n) - Of(s, n))
  PROVE  Even(t)
<1>1. ASSUME NEW j \in DOMAIN t.event, j # i, j # n
      PROVE  /\ j \in DOMAIN s.event /\ t.event[j] = s.event[j]
             /\ (j = t.flip) <=> (j = s.flip)
             /\ IsBehind(t, j) => IsBehind(s, j)
  BY <1>1 DEF But
<1>2. ASSUME NEW j \in DOMAIN t.event PROVE Shaped(t.event[j], j = t.flip, t.limit[Full])
  <2>1. CASE j = i \/ j = n BY <2>1 DEF Keeps
  <2>2. CASE j # i /\ j # n
    <3>1. Shaped(s.event[j], j = s.flip, s.limit[Full]) BY <1>1, <2>2 DEF Even
    <3>2. t.event[j] = s.event[j] /\ ((j = t.flip) <=> (j = s.flip)) BY <1>1, <2>2
    <3>3. t.limit = s.limit \/ s.event[j].type # "FLIP" BY <1>1, <2>2 DEF Limits
    <3> QED BY <3>1, <3>2, <3>3 DEF Shaped
  <2> QED BY <2>1, <2>2
<1>3. ASSUME NEW j \in DOMAIN t.event, IsBehind(t, j) PROVE Due(t.event[j])
  <2>1. CASE j = i \/ j = n BY <1>3, <2>1 DEF Keeps
  <2>2. CASE j # i /\ j # n BY <1>1, <1>3, <2>2 DEF Even
  <2> QED BY <2>1, <2>2
<1>4. \A j \in Info \ {i, n} : Of(t, j) = Of(s, j) BY DEF But, Of
<1>5. Sum(t) = Sum(s) + (Of(t, i) - Of(s, i)) + (IF n = i THEN 0 ELSE Of(t, n) - Of(s, n))
  BY <1>4, SumChanges
<1>6. t.swaps[Full] = Sum(t) BY <1>5 DEF Even
<1> QED BY <1>2, <1>3, <1>6 DEF Even

\* An event of the client.
LEMMA EvenEvent ==
  ASSUME NEW s, Sane(s, {}), Even(s), NEW j \in DOMAIN s.event
  PROVE  /\ j \in Info /\ j # 0 /\ s.event[j] \in SnaDri2Event
         /\ s.event[j].draw = Full /\ s.event[j].client # None
         /\ Shaped(s.event[j], j = s.flip, s.limit[Full])
         /\ IsBehind(s, j) => Due(s.event[j])
<1>1. s \in DriverState /\ Owned(s) BY DEF Sane
<1>2. j \in Info /\ j # 0 /\ s.event[j] \in SnaDri2Event BY <1>1, EventType
<1>3. Shaped(s.event[j], j = s.flip, s.limit[Full]) /\ (IsBehind(s, j) => Due(s.event[j]))
  BY DEF Even
<1>4. s.event[j].draw = Full BY <1>3 DEF Shaped
<1>5. Full # None BY BoundsAssumption
<1>6. <<s.event[j].client, Full>> \in Draws BY <1>1, <1>4, <1>5 DEF Owned
<1>7. s.event[j].client # None BY <1>6, BoundsAssumption
<1> QED BY <1>2, <1>3, <1>4, <1>7

\* What it owes.
LEMMA OwedFacts ==
  ASSUME NEW o, o.draw = Full, o.client # None
  PROVE  OwedFor(o) = (IF o.signal THEN 1 ELSE 0) + (IF o.pending THEN 1 ELSE 0)
                        + (IF o.flip_continue = "FLIP_THROTTLE" THEN 1 ELSE 0)
<1>1. Full # None BY BoundsAssumption
<1> QED BY <1>1 DEF OwedFor, Owes

\* The flip is the same, or was i, or is.
Moves(s, t, i) ==
  /\ t.flip_pending = t.flip
  /\ t.flip = s.flip \/ {s.flip, t.flip} \subseteq {0, i}

\* One event changes.
LEMMA ChangedEven ==
  ASSUME NEW s, Sane(s, {}), Even(s), NEW t, NEW i, NEW o, Changed(s, t, i, o),
         Moves(s, t, i), Limits(s, t), Shaped(o, i = t.flip, t.limit[Full]),
         IsBehind(s, i) => Due(o),
         t.swaps[Full] = s.swaps[Full] + (OwedFor(o) - OwedFor(s.event[i]))
  PROVE  Even(t)
<1>1. /\ DOMAIN t.event = DOMAIN s.event /\ t.event[i] = o /\ t.chain = s.chain
      /\ \A j \in DOMAIN s.event \ {i} : t.event[j] = s.event[j]
      /\ i \in DOMAIN s.event
  BY DEF Changed, Others
<1>2. DOMAIN s.event \subseteq Info BY EvenEvent
<1>3. \A j : IsBehind(t, j) <=> IsBehind(s, j) BY <1>1 DEF IsBehind
<1>4. 0 \notin Info BY DEF Info
<1>5. But(s, t, i, i) BY <1>1, <1>3, <1>4 DEF But, Moves
<1>6. Keeps(t, i) BY <1>1, <1>3 DEF Keeps
<1>7. Of(t, i) = OwedFor(o) /\ Of(s, i) = OwedFor(s.event[i]) BY <1>1 DEF Of
<1>8. i \in Info /\ DOMAIN t.event \subseteq Info BY <1>1, <1>2
<1>9. t.swaps[Full] = s.swaps[Full] + (Of(t, i) - Of(s, i))
  BY <1>7
<1>10. Of(t, i) \in Int /\ Of(s, i) \in Int /\ s.swaps[Full] \in Int
  <2>1. s \in DriverState BY DEF Sane
  <2> QED BY <2>1, OfInt, StateTypes, BoundsAssumption
<1>11. t.swaps[Full] = s.swaps[Full] + (Of(t, i) - Of(s, i))
                         + (IF i = i THEN 0 ELSE Of(t, i) - Of(s, i))
  BY <1>9, <1>10
<1> QED BY <1>5, <1>6, <1>8, <1>11, EvenStep DEF Moves

\* One event is new.
LEMMA AddedEven ==
  ASSUME NEW s, Sane(s, {}), Even(s), NEW t, NEW i, NEW o, Added(s, t, i, o),
         Moves(s, t, i), Limits(s, t), Shaped(o, i = t.flip, t.limit[Full]), Due(o),
         t.swaps[Full] = s.swaps[Full] + OwedFor(o)
  PROVE  Even(t)
<1>1. /\ i \in Info /\ i \notin DOMAIN s.event /\ DOMAIN t.event = DOMAIN s.event \cup {i}
      /\ t.event[i] = o /\ \A j \in DOMAIN s.event : t.event[j] = s.event[j]
      /\ \A j : IsBehind(t, j) => IsBehind(s, j) \/ j = i
  BY DEF Added
<1>2. DOMAIN s.event \subseteq Info BY EvenEvent
<1>4. 0 \notin Info BY DEF Info
<1>5. But(s, t, i, i) BY <1>1, <1>4 DEF But, Moves
<1>6. Keeps(t, i) BY <1>1 DEF Keeps
<1>7. Of(t, i) = OwedFor(o) /\ Of(s, i) = 0 BY <1>1 DEF Of
<1>8. DOMAIN t.event \subseteq Info BY <1>1, <1>2
<1>10. Of(t, i) \in Int /\ s.swaps[Full] \in Int
  <2>1. s \in DriverState BY DEF Sane
  <2> QED BY <2>1, OfInt, StateTypes, BoundsAssumption
<1>11. t.swaps[Full] = s.swaps[Full] + (Of(t, i) - Of(s, i))
                         + (IF i = i THEN 0 ELSE Of(t, i) - Of(s, i))
  BY <1>7, <1>10
<1> QED BY <1>1, <1>5, <1>6, <1>8, <1>11, EvenStep DEF Moves

\* Events leave the chains: none is behind another that was not.
LEMMA ThinnedBehind ==
  ASSUME NEW s, NEW t, NEW S, Thinned(s, t, S), NEW j, IsBehind(t, j) PROVE IsBehind(s, j)
BY DEF Thinned, Thinner, IsBehind

\* A handler ends.
LEMMA FinishedEven ==
  ASSUME NEW s, Sane(s, {}), Even(s), NEW t, NEW i \in DOMAIN s.event, NEW m,
         Finished(s, t, i, m), m \in [Windows -> Int],
         m[Full] = s.swaps[Full] - OwedFor(s.event[i]),
         Moves(s, t, i), t.limit = s.limit
  PROVE  Even(t)
<1>1. /\ DOMAIN s.event \subseteq Info /\ 0 \notin Info /\ i \in Info /\ i # 0
  BY EvenEvent DEF Info
<1>2. Of(s, i) = OwedFor(s.event[i]) /\ Of(s, i) \in Int /\ s.swaps[Full] \in Int
      /\ Full \in Windows
  <2>1. s \in DriverState BY DEF Sane
  <2>2. Of(s, i) \in 0..3 BY OfInt
  <2> QED BY <2>1, <2>2, StateTypes, BoundsAssumption DEF Of
<1>3. Limits(s, t) BY DEF Limits
<1>4. CASE Freed(s, t, i, m)
  <2>1. /\ Thinned(s, t, {i}) /\ DOMAIN t.event = DOMAIN s.event \ {i}
        /\ \A j \in DOMAIN s.event \ {i} : t.event[j] = s.event[j] /\ t.swaps = m
    BY <1>4 DEF Freed
  <2>2. But(s, t, i, i) BY <1>1, <2>1, ThinnedBehind DEF But, Moves
  <2>3. Keeps(t, i) BY <2>1 DEF Keeps
  <2>4. Of(t, i) = 0 BY <2>1 DEF Of
  <2>5. t.swaps = m BY <1>4 DEF Freed
  <2>6. t.swaps[Full] = s.swaps[Full] + (Of(t, i) - Of(s, i))
                          + (IF i = i THEN 0 ELSE Of(t, i) - Of(s, i))
    BY <1>2, <2>4, <2>5
  <2>7. DOMAIN t.event \subseteq Info BY <1>1, <2>1
  <2> QED BY <1>1, <1>3, <2>2, <2>3, <2>6, <2>7, EvenStep DEF Moves
<1>5. ASSUME NEW n, FreedBegun(s, t, i, n, m) PROVE Even(t)
  <2>1. /\ n \in DOMAIN s.event /\ n # i
        /\ Thinned(s, t, {i}) /\ DOMAIN t.event = DOMAIN s.event \ {i}
        /\ \A j \in DOMAIN s.event \ {i, n} : t.event[j] = s.event[j]
        /\ t.event[n] = [s.event[n] EXCEPT !.queued = TRUE] /\ t.swaps = m
    BY <1>5 DEF FreedBegun, Startable
  <2> DEFINE o == s.event[n]
             p == [o EXCEPT !.queued = TRUE]
  <2>2. /\ n \in Info /\ n # 0 /\ o \in SnaDri2Event
        /\ Shaped(o, n = s.flip, s.limit[Full])
    BY <2>1, EvenEvent
  <2>3. t.event[n] = p BY <2>1
  <2>4. Of(s, n) = OwedFor(o) BY <2>1 DEF Of
  <2> HIDE DEF o
  <2>5. /\ p.draw = o.draw /\ p.client = o.client /\ p.type = o.type /\ p.queued
        /\ p.signal = o.signal /\ p.pending = o.pending /\ p.flip_continue = o.flip_continue
    BY <2>2 DEF SnaDri2Event
  <2> HIDE DEF p
  <2>6. OwedFor(p) = OwedFor(o) BY <2>5 DEF OwedFor, Owes
  <2>7. (n = t.flip) <=> (n = s.flip) BY <2>1, <2>2 DEF Moves
  <2>8. Shaped(p, n = t.flip, t.limit[Full]) BY <2>2, <2>5, <2>7 DEF Shaped
  <2>9. Keeps(t, n) BY <2>3, <2>5, <2>8 DEF Keeps, Due
  <2>10. Keeps(t, i) BY <2>1 DEF Keeps
  <2>11. But(s, t, i, n) BY <1>1, <2>1, ThinnedBehind DEF But, Moves
  <2>12. Of(t, i) = 0 /\ Of(t, n) = Of(s, n) /\ Of(s, n) \in Int
    <3>1. Of(s, n) \in 0..3 BY OfInt
    <3> QED BY <2>1, <2>3, <2>4, <2>6, <3>1 DEF Of
  <2>13. t.swaps[Full] = s.swaps[Full] + (Of(t, i) - Of(s, i))
                          + (IF n = i THEN 0 ELSE Of(t, n) - Of(s, n))
    BY <1>2, <2>1, <2>12
  <2>14. DOMAIN t.event \subseteq Info BY <1>1, <2>1
  <2> QED BY <1>1, <1>3, <2>2, <2>9, <2>10, <2>11, <2>13, <2>14, EvenStep DEF Moves
<1>6. ASSUME NEW n, FreedBoth(s, t, i, n, m) PROVE Even(t)
  <2> DEFINE o == s.event[n]
  <2>1. /\ n \in DOMAIN s.event /\ n # i /\ IsBehind(s, n)
        /\ ~o.queued /\ o.type = "SWAP_COMPLETE"
        /\ Thinned(s, t, {i, n}) /\ DOMAIN t.event = DOMAIN s.event \ {i, n}
        /\ \A j \in DOMAIN s.event \ {i, n} : t.event[j] = s.event[j]
        /\ t.swaps = IF o.client = None THEN m ELSE [m EXCEPT ![o.draw] = @ - 1]
    BY <1>6 DEF FreedBoth, Startable
  <2>2. /\ n \in Info /\ n # 0 /\ o.draw = Full /\ o.client # None
        /\ Shaped(o, n = s.flip, s.limit[Full]) /\ Due(o)
    BY <2>1, EvenEvent
  <2>4. Of(s, n) = OwedFor(o) BY <2>1 DEF Of
  <2> HIDE DEF o
  <2>5. o.signal /\ ~o.pending /\ o.flip_continue = "none"
    BY <2>1, <2>2 DEF Due, Shaped
  <2>6. OwedFor(o) = 1 BY <2>2, <2>5, OwedFacts
  <2>7. t.swaps[Full] = m[Full] - 1 BY <1>2, <2>1, <2>2
  <2>8. Keeps(t, i) /\ Keeps(t, n) BY <2>1 DEF Keeps
  <2>9. But(s, t, i, n) BY <1>1, <2>1, ThinnedBehind DEF But, Moves
  <2>10. Of(t, i) = 0 /\ Of(t, n) = 0 BY <2>1 DEF Of
  <2>11. t.swaps[Full] = s.swaps[Full] + (Of(t, i) - Of(s, i))
                          + (IF n = i THEN 0 ELSE Of(t, n) - Of(s, n))
    BY <1>2, <2>1, <2>4, <2>6, <2>7, <2>10
  <2>12. DOMAIN t.event \subseteq Info BY <1>1, <2>1
  <2> QED BY <1>1, <1>3, <2>2, <2>8, <2>9, <2>11, <2>12, EvenStep DEF Moves
<1> QED BY <1>4, <1>5, <1>6 DEF Finished

-----------------------------------------------------------------------------
(* What the handlers keep even.                                              *)

\* A state that is even.
Level == Driven /\ Calm /\ Drawn(Full) /\ Even(State)

\* Its events.
LEMMA LevelFacts ==
  ASSUME Level
  PROVE  /\ State \in DriverState /\ Sane(State, {}) /\ Even(State)
         /\ flip_pending = flip /\ flip \in 0..Events /\ Full \in Windows
         /\ swaps \in [Windows -> Int] /\ swaps[Full] \in Int
         /\ DOMAIN event \subseteq Info
         /\ \A i \in DOMAIN event :
              /\ i # 0 /\ event[i] \in SnaDri2Event
              /\ event[i].draw = Full /\ event[i].client # None
              /\ Shaped(event[i], i = flip, limit[Full])
              /\ IsBehind(State, i) => Due(event[i])
<1> DEFINE s == State
<1>1. /\ s.event = event /\ s.flip = flip /\ s.flip_pending = flip_pending
      /\ s.swaps = swaps /\ s.limit = limit
  BY StateFields
<1>2. Sane(s, {}) /\ Even(s) /\ s \in DriverState BY DEF Level, Driven, Sane
<1> HIDE DEF s
<1>3. Full \in Windows BY BoundsAssumption
<1>4. swaps \in [Windows -> Int] /\ DOMAIN event \subseteq Info /\ flip_pending \in 0..Events
  BY <1>1, <1>2, StateTypes
<1>5. flip_pending = flip BY <1>1, <1>2 DEF Even
<1>6. swaps[Full] \in Int BY <1>3, <1>4
<1>7. \A i \in DOMAIN event :
        /\ i # 0 /\ event[i] \in SnaDri2Event
        /\ event[i].draw = Full /\ event[i].client # None
        /\ Shaped(event[i], i = flip, limit[Full])
        /\ IsBehind(s, i) => Due(event[i])
  BY <1>1, <1>2, EvenEvent
<1> QED BY <1>2, <1>3, <1>4, <1>5, <1>6, <1>7 DEF s

\* The count when an event is told to be complete.
LEMMA CountedFacts ==
  ASSUME Level, NEW i \in DOMAIN event
  PROVE  /\ Counted(i) \in [Windows -> Int]
         /\ Counted(i)[Full] = swaps[Full] - (IF event[i].signal THEN 1 ELSE 0)
<1>1. event[i].draw = Full /\ event[i].client # None /\ swaps \in [Windows -> Int]
      /\ swaps[Full] \in Int /\ Full \in Windows
  BY LevelFacts
<1>2. CASE ~event[i].signal BY <1>1, <1>2 DEF Counted
<1>3. CASE event[i].signal
  <2>1. Counted(i) = [swaps EXCEPT ![Full] = @ - 1] BY <1>1, <1>3 DEF Counted
  <2>2. swaps[Full] - 1 \in Int BY <1>1
  <2> QED BY <1>1, <1>3, <2>1, <2>2
<1> QED BY <1>2, <1>3

\* One less.
LEMMA LessFacts ==
  ASSUME NEW m \in [Windows -> Int]
  PROVE  [m EXCEPT ![Full] = @ - 1] \in [Windows -> Int]
         /\ [m EXCEPT ![Full] = @ - 1][Full] = m[Full] - 1
<1>1. Full \in Windows BY BoundsAssumption
<1>2. m[Full] - 1 \in Int BY <1>1
<1> QED BY <1>1, <1>2

\* What the handlers leave alone moves.
LEMMA UnmovedMoves ==
  ASSUME Level, NEW t, Unmoved(State, t), NEW i
  PROVE  Moves(State, t, i) /\ Limits(State, t) /\ t.limit = State.limit /\ t.flip = flip
         /\ t.limit = limit
BY LevelFacts, StateFields DEF Unmoved, Moves, Limits

\* A swap that is due.
LEMMA SwapEven ==
  ASSUME Level, NEW i \in Info, VblankSwap(i), NEW t, SwapTurns(i, t), Fine(t)
  PROVE  Even(t)
<1> DEFINE s == State
           o == event[i]
<1>1. i \in DOMAIN event /\ o.queued /\ i # flip /\ o.type \in {"FLIP", "SWAP"}
  BY SentFacts DEF VblankSwap, Vblank, Level, Driven
<1>2. /\ o \in SnaDri2Event /\ o.draw = Full /\ o.client # None
      /\ Shaped(o, FALSE, limit[Full]) /\ i # 0
  BY <1>1, LevelFacts
<1>3. /\ Sane(s, {}) /\ Even(s) /\ flip_pending = flip /\ swaps[Full] \in Int
      /\ swaps \in [Windows -> Int]
  BY LevelFacts
<1>4. s.event = event /\ s.flip = flip /\ s.flip_pending = flip_pending /\ s.swaps = swaps
      /\ s.limit = limit
  BY StateFields
<1>5. o.signal /\ ~o.pending /\ o.flip_continue = "none" BY <1>1, <1>2 DEF Shaped
<1>6. OwedFor(o) = 1 BY <1>2, <1>5, OwedFacts
<1>s. s.event[i] = o /\ s = State BY <1>4
<1> HIDE DEF s
<1>7. CASE /\ o.type = "FLIP" /\ flip = 0 /\ Changed(s, t, i, o)
           /\ t.flip = i /\ t.flip_pending = i /\ t.swaps = swaps /\ t.limit = limit
  <2>1. Moves(s, t, i) /\ Limits(s, t) BY <1>4, <1>7 DEF Moves, Limits
  <2>2. Shaped(o, i = t.flip, t.limit[Full]) BY <1>2, <1>5, <1>7 DEF Shaped
  <2>3. Due(o) BY <1>7 DEF Due
  <2>4. t.swaps[Full] = s.swaps[Full] + (OwedFor(o) - OwedFor(s.event[i]))
    BY <1>3, <1>4, <1>6, <1>7, <1>s
  <2> HIDE DEF o
  <2> QED BY <1>3, <1>7, <2>1, <2>2, <2>3, <2>4, ChangedEven
<1>8. CASE /\ Changed(s, t, i, [o EXCEPT !.type = "SWAP_COMPLETE"])
           /\ Unmoved(s, t) /\ t.swaps = swaps
  <2> DEFINE p == [o EXCEPT !.type = "SWAP_COMPLETE"]
  <2>1. Moves(s, t, i) /\ Limits(s, t) /\ t.flip = flip /\ t.limit = limit
    BY <1>8, <1>s, UnmovedMoves
  <2>2. /\ p.draw = Full /\ p.client # None /\ p.type = "SWAP_COMPLETE"
        /\ p.signal /\ ~p.pending /\ p.flip_continue = "none"
    BY <1>2, <1>5 DEF SnaDri2Event
  <2>p. Changed(s, t, i, p) BY <1>8
  <2> HIDE DEF p
  <2>3. Shaped(p, i = t.flip, t.limit[Full]) BY <1>1, <2>1, <2>2 DEF Shaped
  <2>4. Due(p) BY <2>2 DEF Due
  <2>5. OwedFor(p) = 1 BY <2>2, OwedFacts
  <2>6. t.swaps[Full] = s.swaps[Full] + (OwedFor(p) - OwedFor(s.event[i]))
    BY <1>3, <1>4, <1>6, <1>8, <1>s, <2>5
  <2> HIDE DEF o
  <2> QED BY <1>3, <2>1, <2>3, <2>4, <2>6, <2>p, ChangedEven
<1>9. CASE /\ Finished(s, t, i, IF o.client = None THEN swaps
                                ELSE [swaps EXCEPT ![o.draw] = @ - 1])
           /\ Unmoved(s, t)
  <2> DEFINE m == [swaps EXCEPT ![Full] = @ - 1]
  <2>1. Finished(s, t, i, m) BY <1>2, <1>9
  <2>2. m \in [Windows -> Int] /\ m[Full] = swaps[Full] - 1 BY <1>3, LessFacts
  <2> HIDE DEF m
  <2>3. m[Full] = s.swaps[Full] - OwedFor(s.event[i]) BY <1>4, <1>6, <1>s, <2>2
  <2>4. Moves(s, t, i) /\ t.limit = s.limit BY <1>9, <1>s, UnmovedMoves
  <2>5. i \in DOMAIN s.event BY <1>1, <1>4
  <2> QED BY <1>3, <2>1, <2>2, <2>3, <2>4, <2>5, FinishedEven
<1> QED BY <1>7, <1>8, <1>9, <1>s DEF SwapTurns

\* A blit that is complete.
LEMMA CompleteEven ==
  ASSUME Level, NEW i \in Info, VblankComplete(i), NEW t, CompleteTurns(i, t)
  PROVE  Even(t)
<1> DEFINE s == State
           o == event[i]
           m == Counted(i)
<1>1. i \in DOMAIN event /\ o.queued /\ i # flip /\ o.type = "SWAP_COMPLETE"
  BY SentFacts DEF VblankComplete, Vblank, Level, Driven
<1>2. /\ o \in SnaDri2Event /\ o.draw = Full /\ o.client # None
      /\ Shaped(o, FALSE, limit[Full]) /\ i # 0
  BY <1>1, LevelFacts
<1>3. /\ Sane(s, {}) /\ Even(s) /\ flip_pending = flip /\ swaps[Full] \in Int
  BY LevelFacts
<1>4. s.event = event /\ s.flip = flip /\ s.flip_pending = flip_pending /\ s.swaps = swaps
      /\ s.limit = limit
  BY StateFields
<1>5. o.flip_continue = "none" BY <1>2 DEF Shaped
<1>6. OwedFor(o) = (IF o.signal THEN 1 ELSE 0) + (IF o.pending THEN 1 ELSE 0)
  BY <1>2, <1>5, OwedFacts
<1>7. m \in [Windows -> Int] /\ m[Full] = swaps[Full] - (IF o.signal THEN 1 ELSE 0)
  BY <1>1, CountedFacts
<1>s. s.event[i] = o /\ s = State /\ i \in DOMAIN s.event BY <1>1, <1>4
<1>c. m = Counted(i) OBVIOUS
<1> HIDE DEF s, m
<1>8. CASE ~o.pending /\ Finished(s, t, i, m) /\ Unmoved(s, t)
  <2>1. m[Full] = s.swaps[Full] - OwedFor(s.event[i]) BY <1>4, <1>6, <1>7, <1>8, <1>s
  <2>2. Moves(s, t, i) /\ t.limit = s.limit BY <1>8, <1>s, UnmovedMoves
  <2> QED BY <1>3, <1>7, <1>8, <1>s, <2>1, <2>2, FinishedEven
<1>9. CASE /\ o.pending /\ Changed(s, t, i, [o EXCEPT !.signal = TRUE, !.pending = FALSE])
           /\ Unmoved(s, t) /\ t.swaps = m
  <2> DEFINE p == [o EXCEPT !.signal = TRUE, !.pending = FALSE]
  <2>1. Moves(s, t, i) /\ Limits(s, t) /\ t.flip = flip /\ t.limit = limit
    BY <1>9, <1>s, UnmovedMoves
  <2>2. /\ p.draw = Full /\ p.client # None /\ p.type = "SWAP_COMPLETE"
        /\ p.signal /\ ~p.pending /\ p.flip_continue = "none"
    BY <1>1, <1>2, <1>5 DEF SnaDri2Event
  <2>p. Changed(s, t, i, p) BY <1>9
  <2> HIDE DEF p
  <2>3. Shaped(p, i = t.flip, t.limit[Full]) BY <1>1, <2>1, <2>2 DEF Shaped
  <2>4. Due(p) BY <2>2 DEF Due
  <2>5. OwedFor(p) = 1 BY <2>2, OwedFacts
  <2>6. t.swaps[Full] = s.swaps[Full] + (OwedFor(p) - OwedFor(s.event[i]))
    BY <1>3, <1>4, <1>6, <1>7, <1>9, <1>s, <2>5
  <2> HIDE DEF o
  <2> QED BY <1>3, <2>1, <2>3, <2>4, <2>6, <2>p, ChangedEven
<1>10. CASE /\ o.pending
            /\ Finished(s, t, i, IF o.client = None THEN m ELSE [m EXCEPT ![o.draw] = @ - 1])
            /\ Unmoved(s, t)
  <2> DEFINE k == [m EXCEPT ![Full] = @ - 1]
  <2>1. Finished(s, t, i, k) BY <1>2, <1>10
  <2>2. k \in [Windows -> Int] /\ k[Full] = m[Full] - 1 BY <1>7, LessFacts
  <2> HIDE DEF k
  <2>3. k[Full] = s.swaps[Full] - OwedFor(s.event[i])
    BY <1>3, <1>4, <1>6, <1>7, <1>10, <1>s, <2>2
  <2>4. Moves(s, t, i) /\ t.limit = s.limit BY <1>10, <1>s, UnmovedMoves
  <2> QED BY <1>3, <1>s, <2>1, <2>2, <2>3, <2>4, FinishedEven
<1> QED BY <1>8, <1>9, <1>10, <1>c, <1>s DEF CompleteTurns

\* A WaitMSC that is over.
LEMMA MscEven ==
  ASSUME Level, NEW i \in Info, VblankMsc(i), NEW t, Finished(State, t, i, swaps),
         Unmoved(State, t)
  PROVE  Even(t)
<1> DEFINE s == State
           o == event[i]
<1>1. i \in DOMAIN event /\ i # flip /\ o.type = "WAITMSC"
  BY SentFacts DEF VblankMsc, Vblank, Level, Driven
<1>2. /\ o.draw = Full /\ o.client # None /\ Shaped(o, FALSE, limit[Full])
  BY <1>1, LevelFacts
<1>3. /\ Sane(s, {}) /\ Even(s) /\ swaps[Full] \in Int /\ swaps \in [Windows -> Int]
  BY LevelFacts
<1>4. s.event = event /\ s.swaps = swaps BY StateFields
<1>5. ~o.signal /\ ~o.pending /\ o.flip_continue = "none" BY <1>1, <1>2 DEF Shaped
<1>6. OwedFor(o) = 0 BY <1>2, <1>5, OwedFacts
<1>7. Moves(s, t, i) /\ t.limit = s.limit BY UnmovedMoves
<1>8. swaps[Full] = s.swaps[Full] - OwedFor(s.event[i]) BY <1>3, <1>4, <1>6
<1>9. i \in DOMAIN s.event /\ Finished(s, t, i, swaps) BY <1>1, <1>4
<1> HIDE DEF s
<1> QED BY <1>3, <1>7, <1>8, <1>9, FinishedEven

\* A flip that is complete, in general.
LEMMA FlipFrom ==
  ASSUME Level, NEW i \in Info, flip = i
  PROVE  /\ i \in DOMAIN event /\ event[i] \in SnaDri2Event /\ event[i].draw = Full
         /\ event[i].client # None /\ i # 0 /\ flip_pending = i
         /\ Shaped(event[i], TRUE, limit[Full]) /\ ~event[i].pending
         /\ OwedFor(event[i]) = (IF event[i].signal THEN 1 ELSE 0)
              + (IF event[i].flip_continue = "FLIP_THROTTLE" THEN 1 ELSE 0)
<1>1. i \in DOMAIN event BY FlipDone DEF Level
<1>2. /\ event[i] \in SnaDri2Event /\ event[i].draw = Full /\ event[i].client # None
      /\ i # 0 /\ flip_pending = i /\ Shaped(event[i], TRUE, limit[Full])
  BY <1>1, LevelFacts
<1>3. ~event[i].pending BY <1>2 DEF Shaped
<1>4. OwedFor(event[i]) = (IF event[i].signal THEN 1 ELSE 0)
              + (IF event[i].flip_continue = "FLIP_THROTTLE" THEN 1 ELSE 0)
  BY <1>2, <1>3, OwedFacts
<1> QED BY <1>1, <1>2, <1>3, <1>4

\* It ends.
LEMMA FlipEven ==
  ASSUME Level, NEW i \in Info, flip = i, event[i].flip_continue = "none", NEW t,
         Finished(State, t, i, Counted(i)), t.flip = 0, t.flip_pending = 0, t.limit = limit
  PROVE  Even(t)
<1> DEFINE s == State
           m == Counted(i)
<1>1. /\ Sane(s, {}) /\ Even(s) /\ swaps[Full] \in Int BY LevelFacts
<1>2. s.event = event /\ s.flip = flip /\ s.swaps = swaps /\ s.limit = limit BY StateFields
<1>3. i \in DOMAIN event /\ OwedFor(event[i]) = IF event[i].signal THEN 1 ELSE 0
  <2> DEFINE o == event[i]
  <2>1. /\ i \in DOMAIN event
        /\ OwedFor(o) = (IF o.signal THEN 1 ELSE 0)
             + (IF o.flip_continue = "FLIP_THROTTLE" THEN 1 ELSE 0)
    BY FlipFrom
  <2>2. o.flip_continue # "FLIP_THROTTLE" OBVIOUS
  <2> HIDE DEF o
  <2>3. OwedFor(o) = IF o.signal THEN 1 ELSE 0 BY <2>1, <2>2
  <2> QED BY <2>1, <2>3 DEF o
<1>4. m \in [Windows -> Int] /\ m[Full] = swaps[Full] - (IF event[i].signal THEN 1 ELSE 0)
  BY <1>3, CountedFacts
<1>5. Moves(s, t, i) /\ t.limit = s.limit BY <1>2 DEF Moves
<1>6. Finished(s, t, i, m) /\ i \in DOMAIN s.event /\ s.event[i] = event[i] BY <1>2, <1>3
<1> HIDE DEF s, m
<1>7. m[Full] = s.swaps[Full] - OwedFor(s.event[i]) BY <1>1, <1>2, <1>3, <1>4, <1>6
<1> QED BY <1>1, <1>4, <1>5, <1>6, <1>7, FinishedEven

\* It ends, with another event to come.
LEMMA ChainEven ==
  ASSUME Level, NEW i \in Info, FlipEventChain(i), NEW t,
         flip_pending \in {0, i} => Freed(State, t, i, Counted(i)) /\ t.flip = 0
                                    /\ t.flip_pending = 0 /\ t.limit = limit
  PROVE  Even(t)
<1>1. flip = i /\ (event[i].type = "FLIP" \/ flip_pending \notin {0, i}) BY DEF FlipEventChain
<1>2. flip_pending = i /\ Shaped(event[i], TRUE, limit[Full]) BY <1>1, FlipFrom
<1>3. event[i].flip_continue = "none" BY <1>1, <1>2 DEF Shaped
<1>4. Finished(State, t, i, Counted(i)) BY <1>2 DEF Finished
<1> QED BY <1>1, <1>2, <1>3, <1>4, FlipEven

\* It ends, with nothing to come.
LEMMA LastEven ==
  ASSUME Level, NEW i \in Info, FlipEventLast(i), NEW t,
         Finished(State, t, i, Counted(i)), t.flip = 0, t.flip_pending = 0, t.limit = limit
  PROVE  Even(t)
<1>1. flip = i /\ event[i].flip_continue = "none" BY DEF FlipEventLast
<1> QED BY <1>1, FlipEven

\* It goes on.
LEMMA ContinueEven ==
  ASSUME Level, NEW i \in Info, FlipEventContinue(i), NEW t, ContinueTurns(i, t)
  PROVE  Even(t)
<1> DEFINE s == State
           o == event[i]
           p == Again(i)
           m == Counted(i)
           g == o.flip_continue = "FLIP_THROTTLE"
<1>1. flip = i /\ o.type # "FLIP" /\ o.flip_continue # "none" BY DEF FlipEventContinue
<1>2. /\ i \in DOMAIN event /\ o \in SnaDri2Event /\ o.draw = Full
      /\ o.client # None /\ i # 0 /\ flip_pending = i
      /\ Shaped(o, TRUE, limit[Full]) /\ ~o.pending
      /\ OwedFor(o) = (IF o.signal THEN 1 ELSE 0) + (IF g THEN 1 ELSE 0)
  BY <1>1, FlipFrom
<1>3. /\ Sane(s, {}) /\ Even(s) /\ swaps[Full] \in Int BY LevelFacts
<1>4. s.event = event /\ s.flip = flip /\ s.swaps = swaps /\ s.limit = limit BY StateFields
<1>5. m \in [Windows -> Int] /\ m[Full] = swaps[Full] - (IF o.signal THEN 1 ELSE 0)
  BY <1>2, CountedFacts
<1>6. /\ p.draw = Full /\ p.client = o.client /\ p.type \in {"FLIP_THROTTLE", "FLIP_COMPLETE"}
      /\ p.signal = g /\ ~p.pending /\ p.flip_continue = "none"
  <2>1. Full # None BY BoundsAssumption
  <2>2. o.flip_continue \in {"FLIP_THROTTLE", "FLIP_COMPLETE"} BY <1>1, <1>2 DEF SnaDri2Event
  <2> QED BY <1>2, <2>1, <2>2 DEF Again, SnaDri2Event
<1>s. s.event[i] = o /\ s = State /\ i \in DOMAIN s.event BY <1>2, <1>4
<1>c. m = Counted(i) /\ p = Again(i) /\ o = event[i] OBVIOUS
<1>n. g \in BOOLEAN OBVIOUS
<1> HIDE DEF s, m, p, g
<1>7. OwedFor(p) = IF g THEN 1 ELSE 0
  <2>1. OwedFor(p) = (IF p.signal THEN 1 ELSE 0) + (IF p.pending THEN 1 ELSE 0)
                       + (IF p.flip_continue = "FLIP_THROTTLE" THEN 1 ELSE 0)
    BY <1>2, <1>6, OwedFacts
  <2> QED BY <1>6, <1>n, <2>1
<1>8. CASE /\ Changed(s, t, i, p)
           /\ t.flip = i /\ t.flip_pending = i /\ t.swaps = m /\ t.limit = limit
  <2>1. Moves(s, t, i) /\ Limits(s, t) BY <1>1, <1>4, <1>8 DEF Moves, Limits
  <2>2. Shaped(p, i = t.flip, t.limit[Full])
    BY <1>6, <1>8 DEF Shaped
  <2>3. Due(p) BY <1>6 DEF Due
  <2>4. t.swaps[Full] = s.swaps[Full] + (OwedFor(p) - OwedFor(s.event[i]))
    BY <1>2, <1>3, <1>4, <1>5, <1>7, <1>8, <1>s
  <2> HIDE DEF o
  <2> QED BY <1>3, <1>8, <2>1, <2>2, <2>3, <2>4, ChangedEven
<1>9. CASE /\ Freed(s, t, i, IF ~p.signal \/ o.client = None THEN m
                             ELSE [m EXCEPT ![o.draw] = @ - 1])
           /\ t.flip = 0 /\ t.flip_pending = 0 /\ t.limit = limit
  <2> DEFINE k == IF g THEN [m EXCEPT ![Full] = @ - 1] ELSE m
  <2>1. Finished(s, t, i, k) BY <1>2, <1>6, <1>9 DEF Finished
  <2>2. k \in [Windows -> Int] /\ k[Full] = m[Full] - (IF g THEN 1 ELSE 0)
    <3>1. m[Full] \in Int BY <1>5, BoundsAssumption
    <3> QED BY <1>5, <3>1, LessFacts
  <2> HIDE DEF k
  <2>3. k[Full] = s.swaps[Full] - OwedFor(s.event[i])
    BY <1>2, <1>3, <1>4, <1>5, <1>s, <2>2
  <2>4. Moves(s, t, i) /\ t.limit = s.limit BY <1>1, <1>4, <1>9 DEF Moves
  <2> QED BY <1>3, <1>s, <2>1, <2>2, <2>3, <2>4, FinishedEven
<1> QED BY <1>8, <1>9, <1>c, <1>s DEF ContinueTurns

\* No event is a swap that the server holds the client back for.
NoFlips ==
  \A j \in DOMAIN event : event[j].type # "FLIP" /\ event[j].flip_continue # "FLIP_THROTTLE"

\* It is so for a client that may swap.
LEMMA NoFlip ==
  ASSUME Level, NEW c, NEW w, Swaps(c, w)
  PROVE  w = Full /\ c # None /\ NoFlips
<1>1. c \in Clients /\ w \in Windows /\ <<c, w>> \in Draws /\ swaps[w] < limit[w] BY SwapsFacts
<1>2. w = Full BY <1>1 DEF Level, Calm
<1>3. c # None BY <1>1, BoundsAssumption
<1>4. \A j \in DOMAIN event : event[j].flip_continue # "FLIP_THROTTLE"
  <2>1. "impatient" \notin world BY DEF Level, Calm
  <2>2. \A j \in DOMAIN event : event[j].draw = w BY <1>2, LevelFacts
  <2> QED BY <2>1, <2>2 DEF Swaps
<1>5. ASSUME NEW j \in DOMAIN event, event[j].type = "FLIP" PROVE FALSE
  <2> DEFINE s == State
             f == [i \in Info |-> Of(s, i)]
             o == event[j]
  <2>1. /\ o.draw = Full /\ o.client # None /\ Shaped(o, j = flip, limit[Full]) /\ j \in Info
        /\ Even(s)
    BY LevelFacts
  <2>2. o.signal /\ limit[Full] = 1 BY <1>5, <2>1 DEF Shaped
  <2>3. ~o.pending /\ o.flip_continue # "FLIP_THROTTLE" BY <1>4, <1>5, <2>1 DEF Shaped
  <2>4. s.swaps = swaps /\ s.event = event BY StateFields
  <2>5. OwedFor(o) = 1
    <3>1. OwedFor(o) = (IF o.signal THEN 1 ELSE 0) + (IF o.pending THEN 1 ELSE 0)
                       + (IF o.flip_continue = "FLIP_THROTTLE" THEN 1 ELSE 0)
      BY <2>1, OwedFacts
    <3> QED BY <2>2, <2>3, <3>1
  <2>6. f \in [Info -> Int] /\ (\A i \in Info : f[i] >= 0) /\ f[j] = 1
    <3>1. \A i \in Info : Of(s, i) \in 0..3 BY OfInt
    <3>2. \A i \in Info : Of(s, i) \in Int /\ Of(s, i) >= 0 BY <3>1
    <3>3. Of(s, j) = 1 BY <2>4, <2>5 DEF Of
    <3> QED BY <2>1, <3>2, <3>3
  <2>7. swaps[Full] = Total(f) BY <2>1, <2>4 DEF Even, Sum
  <2> HIDE DEF f
  <2>8. Total(f) >= 1 BY <2>1, <2>6, TotalLeast
  <2>9. swaps[Full] \in Int BY LevelFacts
  <2> QED BY <1>1, <1>2, <2>2, <2>7, <2>8, <2>9
<1> QED BY <1>2, <1>3, <1>4, <1>5 DEF NoFlips

\* One more swap.
LEMMA MoreFacts ==
  ASSUME Level
  PROVE  /\ More(Full) \in [Windows -> Int] /\ More(Full)[Full] = swaps[Full] + 1
         /\ [More(Full) EXCEPT ![Full] = @ - 1][Full] = swaps[Full]
<1> DEFINE m == More(Full)
<1>1. Full \in Windows /\ swaps \in [Windows -> Int] /\ swaps[Full] \in Int BY LevelFacts
<1>2. swaps[Full] + 1 \in Int BY <1>1
<1>3. m \in [Windows -> Int] /\ m[Full] = swaps[Full] + 1 BY <1>1, <1>2 DEF More
<1> HIDE DEF m
<1>4. [m EXCEPT ![Full] = @ - 1][Full] = swaps[Full] BY <1>1, <1>3, LessFacts
<1> QED BY <1>3, <1>4 DEF m

\* A swap that the flip takes up.
LEMMA ContinuedEven ==
  ASSUME Level, NEW c, NEW w, Swaps(c, w), NEW mode, NEW t, ContinuedTurns(w, mode, t)
  PROVE  Even(t)
<1> DEFINE s == State
           i == flip_pending
           o == event[i]
           f == IF mode = "next" THEN "FLIP_THROTTLE" ELSE "FLIP_COMPLETE"
           p == [o EXCEPT !.flip_continue = f]
<1>0. w = Full /\ NoFlips BY NoFlip
<1>1. w = Full /\ \A j \in DOMAIN event : event[j].type # "FLIP"
                                          /\ event[j].flip_continue # "FLIP_THROTTLE"
  BY <1>0 DEF NoFlips
<1>2. /\ i # 0 /\ Changed(s, t, i, p) /\ Unmoved(s, t)
      /\ t.swaps = IF mode = "next" \/ o.client = None THEN More(Full)
                   ELSE [More(Full) EXCEPT ![Full] = @ - 1]
  BY <1>1 DEF ContinuedTurns
<1>3. s.event = event /\ s.flip = flip /\ s.swaps = swaps /\ s.limit = limit BY StateFields
<1>4. i \in DOMAIN event /\ i = flip BY <1>2, <1>3, LevelFacts DEF Changed
<1>5. /\ o \in SnaDri2Event /\ o.draw = Full /\ o.client # None /\ Shaped(o, TRUE, limit[Full])
      /\ o.type # "FLIP" /\ o.flip_continue # "FLIP_THROTTLE"
  BY <1>1, <1>4, LevelFacts
<1>6. /\ Sane(s, {}) /\ Even(s) /\ swaps[Full] \in Int BY LevelFacts
<1>7. /\ p.draw = Full /\ p.client = o.client /\ p.type = o.type /\ p.signal = o.signal
      /\ p.pending = o.pending /\ p.flip_continue = f /\ p.queued = o.queued
  BY <1>5 DEF SnaDri2Event
<1>8. Moves(s, t, i) /\ Limits(s, t) /\ t.flip = flip /\ t.limit = limit
  BY <1>2, UnmovedMoves
<1>s. s.event[i] = o BY <1>3
<1>f. f = "FLIP_THROTTLE" <=> mode = "next" OBVIOUS
<1> HIDE DEF s, p, o, f, i
<1>9. Shaped(p, i = t.flip, t.limit[Full])
  BY <1>4, <1>5, <1>7, <1>8 DEF Shaped
<1>10. Due(p) BY <1>5, <1>7 DEF Due, Shaped
<1>11. /\ OwedFor(p) = (IF o.signal THEN 1 ELSE 0) + (IF o.pending THEN 1 ELSE 0)
                         + (IF mode = "next" THEN 1 ELSE 0)
       /\ OwedFor(o) = (IF o.signal THEN 1 ELSE 0) + (IF o.pending THEN 1 ELSE 0)
  <2>1. OwedFor(p) = (IF p.signal THEN 1 ELSE 0) + (IF p.pending THEN 1 ELSE 0)
                       + (IF p.flip_continue = "FLIP_THROTTLE" THEN 1 ELSE 0)
    BY <1>5, <1>7, OwedFacts
  <2>2. OwedFor(o) = (IF o.signal THEN 1 ELSE 0) + (IF o.pending THEN 1 ELSE 0)
                       + (IF o.flip_continue = "FLIP_THROTTLE" THEN 1 ELSE 0)
    BY <1>5, OwedFacts
  <2> QED BY <1>5, <1>7, <1>f, <2>1, <2>2
<1>12. t.swaps[Full] = s.swaps[Full] + (OwedFor(p) - OwedFor(s.event[i]))
  <2>1. t.swaps[Full] = swaps[Full] + (IF mode = "next" THEN 1 ELSE 0)
    BY <1>2, <1>5, <1>6, MoreFacts
  <2>2. OwedFor(p) - OwedFor(o) = IF mode = "next" THEN 1 ELSE 0 BY <1>11
  <2> QED BY <1>3, <1>s, <2>1, <2>2
<1> QED BY <1>2, <1>6, <1>8, <1>9, <1>10, <1>12, ChangedEven

\* A swap that is queued.
LEMMA QueueEven ==
  ASSUME Level, NEW c, NEW w, Swaps(c, w), NEW t, QueueTurns(c, w, t)
  PROVE  Even(t)
<1> DEFINE s == State
<1>0. w = Full /\ c # None /\ NoFlips BY NoFlip
<1>1. /\ w = Full /\ c # None /\ \A j \in DOMAIN event : event[j].type # "FLIP"
  BY <1>0 DEF NoFlips
<1>2. PICK i, o :
        /\ Added(s, t, i, o) /\ IsSwap(o, c, w) /\ o.signal
        /\ o.type \in {"FLIP", "SWAP", "SWAP_COMPLETE"}
        /\ t.flip = flip /\ t.flip_pending = flip_pending /\ t.swaps = More(w)
        /\ \/ t.limit = [limit EXCEPT ![w] = 1]
           \/ o.type # "FLIP" /\ \E l \in 1..3 : t.limit = [limit EXCEPT ![w] = l]
           \/ o.type # "FLIP" /\ t.limit = limit
  BY DEF QueueTurns
<1>3. s.event = event /\ s.flip = flip /\ s.swaps = swaps /\ s.limit = limit BY StateFields
<1>4. /\ Sane(s, {}) /\ Even(s) /\ swaps[Full] \in Int /\ flip_pending = flip /\ Full \in Windows
      /\ State \in DriverState
  BY LevelFacts
<1>5. o.draw = Full /\ o.client # None /\ ~o.pending /\ o.flip_continue = "none"
  BY <1>1, <1>2 DEF IsSwap
<1>6. OwedFor(o) = 1
  <2>1. OwedFor(o) = (IF o.signal THEN 1 ELSE 0) + (IF o.pending THEN 1 ELSE 0)
                       + (IF o.flip_continue = "FLIP_THROTTLE" THEN 1 ELSE 0)
    BY <1>5, OwedFacts
  <2> QED BY <1>2, <1>5, <2>1
<1>7. i # flip
  <2>1. i \in Info /\ i \notin DOMAIN event BY <1>2, <1>3 DEF Added
  <2>2. i # 0 BY <2>1 DEF Info
  <2>3. flip # 0 => flip \in DOMAIN event
    BY <1>3, <1>4, StateFields DEF Sane, Waiting
  <2> QED BY <2>1, <2>2, <2>3
<1>8. o.type = "FLIP" => t.limit[Full] = 1
  <2>1. limit \in [Windows -> 1..3] BY <1>3, <1>4, StateTypes
  <2> QED BY <1>1, <1>2, <1>4, <2>1
<1>9. Shaped(o, i = t.flip, t.limit[Full]) BY <1>2, <1>5, <1>7, <1>8 DEF Shaped
<1>10. Due(o) BY <1>2, <1>5 DEF Due
<1>11. Limits(s, t) /\ Moves(s, t, i) BY <1>1, <1>2, <1>3, <1>4 DEF Limits, Moves
<1>12. t.swaps[Full] = s.swaps[Full] + OwedFor(o) BY <1>1, <1>2, <1>3, <1>6, MoreFacts
<1> HIDE DEF s
<1> QED BY <1>2, <1>4, <1>9, <1>10, <1>11, <1>12, AddedEven

\* A swap that is flipped.
LEMMA FlippedEven ==
  ASSUME Level, NEW c, NEW w, Swaps(c, w), NEW t, FlipTurns(c, w, t)
  PROVE  Even(t)
<1> DEFINE s == State
<1>0. w = Full /\ c # None /\ NoFlips BY NoFlip
<1>1. /\ w = Full /\ c # None /\ \A j \in DOMAIN event : event[j].type # "FLIP"
  BY <1>0 DEF NoFlips
<1>2. PICK i, o :
        /\ Added(s, t, i, o) /\ IsSwap(o, c, w) /\ o.queued
        /\ flip = 0 /\ flip_pending = 0 /\ t.flip = i /\ t.flip_pending = i
        /\ \/ o.type \in {"FLIP", "FLIP_THROTTLE"} /\ o.signal /\ t.swaps = More(w)
           \/ o.type = "FLIP_COMPLETE" /\ ~o.signal /\ t.swaps = [More(w) EXCEPT ![w] = @ - 1]
        /\ \E l \in 1..3 : (o.type = "FLIP" => l = 1) /\ t.limit = [limit EXCEPT ![w] = l]
  BY DEF FlipTurns
<1>3. s.event = event /\ s.flip = flip /\ s.swaps = swaps /\ s.limit = limit BY StateFields
<1>4. /\ Sane(s, {}) /\ Even(s) /\ swaps[Full] \in Int /\ Full \in Windows
      /\ State \in DriverState
  BY LevelFacts
<1>5. o.draw = Full /\ o.client # None /\ ~o.pending /\ o.flip_continue = "none"
  BY <1>1, <1>2 DEF IsSwap
<1>6. OwedFor(o) = IF o.signal THEN 1 ELSE 0
  <2>1. OwedFor(o) = (IF o.signal THEN 1 ELSE 0) + (IF o.pending THEN 1 ELSE 0)
                       + (IF o.flip_continue = "FLIP_THROTTLE" THEN 1 ELSE 0)
    BY <1>5, OwedFacts
  <2> QED BY <1>5, <2>1
<1>7. o.type = "FLIP" => t.limit[Full] = 1
  <2>1. limit \in [Windows -> 1..3] BY <1>3, <1>4, StateTypes
  <2> QED BY <1>1, <1>2, <1>4, <2>1
<1>8. Shaped(o, i = t.flip, t.limit[Full]) BY <1>2, <1>5, <1>7 DEF Shaped
<1>9. Due(o) BY <1>2 DEF Due
<1>10. Limits(s, t) /\ Moves(s, t, i) BY <1>1, <1>2, <1>3 DEF Limits, Moves
<1>11. t.swaps[Full] = s.swaps[Full] + OwedFor(o)
  <2>1. More(Full)[Full] = swaps[Full] + 1
        /\ [More(Full) EXCEPT ![Full] = @ - 1][Full] = swaps[Full]
    BY MoreFacts
  <2>2. CASE o.signal /\ t.swaps = More(w) BY <1>1, <1>3, <1>6, <2>1, <2>2
  <2>3. CASE ~o.signal /\ t.swaps = [More(w) EXCEPT ![w] = @ - 1]
    BY <1>1, <1>3, <1>4, <1>6, <2>1, <2>3
  <2> QED BY <1>2, <2>2, <2>3
<1> HIDE DEF s
<1> QED BY <1>2, <1>4, <1>8, <1>9, <1>10, <1>11, AddedEven

\* A swap that is taken up by the blit that is pending.
LEMMA BlitEven ==
  ASSUME Level, NEW c, NEW w, Swaps(c, w), NEW t, BlitTurns(w, t)
  PROVE  Even(t)
<1> DEFINE s == State
<1>0. w = Full /\ NoFlips BY NoFlip
<1>1. /\ w = Full /\ \A j \in DOMAIN event : event[j].type # "FLIP"
  BY <1>0 DEF NoFlips
<1>2. PICK h \in DOMAIN event, b \in BOOLEAN, l \in 1..3 :
        /\ event[h].draw = w /\ event[h].type = "SWAP_COMPLETE" /\ ~IsBehind(s, h)
        /\ Changed(s, t, h, [event[h] EXCEPT !.pending = TRUE, !.sync = b])
        /\ t.flip = flip /\ t.flip_pending = flip_pending
        /\ t.limit = [limit EXCEPT ![w] = l]
        /\ t.swaps = IF event[h].pending THEN [More(w) EXCEPT ![w] = @ - 1] ELSE More(w)
  BY DEF BlitTurns
<1> DEFINE o == event[h]
           p == [o EXCEPT !.pending = TRUE, !.sync = b]
<1>3. s.event = event /\ s.flip = flip /\ s.swaps = swaps /\ s.limit = limit BY StateFields
<1>4. /\ Sane(s, {}) /\ Even(s) /\ swaps[Full] \in Int /\ flip_pending = flip
  BY LevelFacts
<1>5. /\ o \in SnaDri2Event /\ o.draw = Full /\ o.client # None
      /\ Shaped(o, h = flip, limit[Full])
  BY LevelFacts
<1>6. /\ p.draw = Full /\ p.client = o.client /\ p.type = "SWAP_COMPLETE"
      /\ p.signal = o.signal /\ p.pending /\ p.flip_continue = o.flip_continue
  BY <1>2, <1>5 DEF SnaDri2Event
<1>7. h # flip /\ o.flip_continue = "none" BY <1>2, <1>5 DEF Shaped
<1>s. s.event[h] = o /\ Changed(s, t, h, p) BY <1>2, <1>3
<1>p. o.pending \in BOOLEAN BY <1>5 DEF SnaDri2Event
<1>m. t.swaps = IF o.pending THEN [More(w) EXCEPT ![w] = @ - 1] ELSE More(w) BY <1>2
<1> HIDE DEF o, p
<1>8. Shaped(p, h = t.flip, t.limit[Full]) BY <1>2, <1>6, <1>7 DEF Shaped
<1>9. Limits(s, t) /\ Moves(s, t, h) BY <1>1, <1>2, <1>3, <1>4 DEF Limits, Moves
<1>10. OwedFor(p) - OwedFor(o) = IF o.pending THEN 0 ELSE 1
  <2>1. OwedFor(p) = (IF p.signal THEN 1 ELSE 0) + (IF p.pending THEN 1 ELSE 0)
                       + (IF p.flip_continue = "FLIP_THROTTLE" THEN 1 ELSE 0)
    BY <1>5, <1>6, OwedFacts
  <2>2. OwedFor(o) = (IF o.signal THEN 1 ELSE 0) + (IF o.pending THEN 1 ELSE 0)
                       + (IF o.flip_continue = "FLIP_THROTTLE" THEN 1 ELSE 0)
    BY <1>5, OwedFacts
  <2> QED BY <1>6, <1>7, <2>1, <2>2
<1>11. t.swaps[Full] = s.swaps[Full] + (OwedFor(p) - OwedFor(s.event[h]))
  <2>1. t.swaps[Full] = swaps[Full] + (IF o.pending THEN 0 ELSE 1)
    BY <1>1, <1>4, <1>m, MoreFacts
  <2> QED BY <1>3, <1>10, <1>s, <2>1
<1> HIDE DEF s
<1> QED BY <1>2, <1>4, <1>8, <1>9, <1>11, <1>s, ChangedEven

\* A WaitMSC.
LEMMA WaitEven ==
  ASSUME Level, NEW c, NEW w, WaitMsc(c, w), NEW t, NEW i, t.swaps = swaps,
         Unmoved(State, t), Added(State, t, i, [Blank(w, c) EXCEPT !.queued = TRUE])
  PROVE  Even(t)
<1> DEFINE s == State
           o == [Blank(w, c) EXCEPT !.queued = TRUE]
<1>1. <<c, w>> \in Draws BY DEF WaitMsc, Requests
<1>2. w = Full /\ c # None BY <1>1, BoundsAssumption DEF Level, Calm
<1>3. s.event = event /\ s.flip = flip /\ s.swaps = swaps /\ s.limit = limit BY StateFields
<1>4. /\ Sane(s, {}) /\ Even(s) /\ swaps[Full] \in Int /\ flip_pending = flip
      /\ State \in DriverState
  BY LevelFacts
<1>5. o.draw = Full /\ o.client = c /\ ~o.pending /\ o.flip_continue = "none"
      /\ o.type = "WAITMSC" /\ ~o.signal /\ o.queued
  BY <1>2 DEF Blank
<1>6. i # flip
  <2>1. i \in Info /\ i \notin DOMAIN event BY <1>3 DEF Added
  <2>2. i # 0 BY <2>1 DEF Info
  <2>3. flip # 0 => flip \in DOMAIN event
    BY <1>3, <1>4, StateFields DEF Sane, Waiting
  <2> QED BY <2>1, <2>2, <2>3
<1>7. Moves(s, t, i) /\ Limits(s, t) /\ t.flip = flip BY UnmovedMoves
<1>8. Added(s, t, i, o) OBVIOUS
<1> HIDE DEF o
<1>9. OwedFor(o) = 0
  <2>1. OwedFor(o) = (IF o.signal THEN 1 ELSE 0) + (IF o.pending THEN 1 ELSE 0)
                       + (IF o.flip_continue = "FLIP_THROTTLE" THEN 1 ELSE 0)
    BY <1>2, <1>5, OwedFacts
  <2> QED BY <1>5, <2>1
<1>10. Shaped(o, i = t.flip, t.limit[Full]) BY <1>5, <1>6, <1>7 DEF Shaped
<1>11. Due(o) BY <1>5 DEF Due
<1>12. t.swaps[Full] = s.swaps[Full] + OwedFor(o) BY <1>3, <1>4, <1>9
<1> HIDE DEF s
<1> QED BY <1>4, <1>7, <1>8, <1>10, <1>11, <1>12, AddedEven

\* The events stay, in chains that lose none of them.
LEMMA SameEven ==
  ASSUME NEW s, Even(s), NEW t, Thinned(s, t, {}), DOMAIN t.event = DOMAIN s.event,
         \A i \in DOMAIN s.event : t.event[i] = s.event[i],
         t.flip = s.flip, t.flip_pending = s.flip_pending, t.limit = s.limit, t.swaps = s.swaps
  PROVE  Even(t)
<1>1. \A i \in DOMAIN t.event : Shaped(t.event[i], i = t.flip, t.limit[Full])
  BY DEF Even
<1>2. \A i \in DOMAIN t.event : IsBehind(t, i) => Due(t.event[i])
  BY ThinnedBehind DEF Even
<1>3. \A i \in Info : Of(t, i) = Of(s, i) BY DEF Of
<1>4. Sum(t) = Sum(s) BY <1>3 DEF Sum
<1> QED BY <1>1, <1>2, <1>4 DEF Even

\* A client goes that does not draw to the window.
LEMMA GoneEven ==
  ASSUME OneClient, Level, NEW c \in Clients, <<c, Full>> \notin Draws
  PROVE  Even(GoneFrom(c))
<1> DEFINE s == State
           t == GoneFrom(c)
           S == {i \in DOMAIN event : event[i].client = c}
<1>1. Sane(s, {}) /\ Even(s) BY LevelFacts
<1>2. S = {}
  <2>1. ASSUME NEW i \in DOMAIN event PROVE event[i].client # c
    <3>1. event[i].draw = Full /\ Full # None BY LevelFacts, BoundsAssumption
    <3>2. <<event[i].client, Full>> \in Draws
      BY <1>1, <3>1, StateFields DEF Sane, Owned
    <3> QED BY <3>2
  <2> QED BY <2>1
<1>3. /\ t.swaps = swaps /\ t.limit = limit
      /\ S = {} => /\ Thinned(s, t, {}) /\ DOMAIN t.event = DOMAIN event
                   /\ \A i \in DOMAIN event : t.event[i] = event[i]
                   /\ t.flip = flip /\ t.flip_pending = flip_pending
  BY GoneFacts DEF Level, Driven
<1>4. s.event = event /\ s.flip = flip /\ s.flip_pending = flip_pending /\ s.swaps = swaps
      /\ s.limit = limit
  BY StateFields
<1> HIDE DEF s, t, S
<1>5. Even(t) BY <1>1, <1>2, <1>3, <1>4, SameEven
<1> QED BY <1>5 DEF t

-----------------------------------------------------------------------------
(* The invariant.                                                            *)

\* The world is the same, and who is gone stays so.
LEMMA NextWorld == ASSUME Next PROVE world' = world /\ gone \subseteq gone'
<1>1. ASSUME NEW i \in Info, VblankEvent(i) PROVE world' = world /\ gone' = gone
  BY <1>1 DEF VblankEvent, VblankGone, VblankSwap, VblankComplete, VblankMsc
<1>2. ASSUME FlipEvent PROVE world' = world /\ gone' = gone
  BY <1>2 DEF FlipEvent, FlipEventChain, FlipEventLast, FlipEventContinue
<1>3. ASSUME NEW c \in Clients, NEW w \in Windows, Request(c, w)
      PROVE  world' = world /\ gone' = gone
  <2>1. ASSUME NEW mode \in Modes,
               SwapContinue(c, w, mode) \/ SwapWait(c, w, mode) \/ SwapQueue(c, w, mode)
        PROVE  world' = world /\ gone' = gone
    BY <2>1 DEF SwapContinue, SwapWait, SwapQueue
  <2>2. ASSUME NEW mode \in Modes, SwapFlip(c, w, mode) \/ SwapBlit(c, w, mode)
        PROVE  world' = world /\ gone' = gone
    BY <2>2 DEF SwapFlip, SwapBlit
  <2>3. CASE SwapLater(c, w) \/ SwapSkip(c, w) \/ WaitMsc(c, w)
    BY <2>3 DEF SwapLater, SwapSkip, WaitMsc
  <2> QED BY <1>3, <2>1, <2>2, <2>3 DEF Request
<1>4. ASSUME NEW c \in Clients, ClientGone(c) PROVE world' = world /\ gone \subseteq gone'
  BY <1>4 DEF ClientGone
<1>5. ASSUME NEW w \in Windows, DestroyWindow(w) \/ DecoupleWindow(w)
      PROVE  world' = world /\ gone \subseteq gone'
  BY <1>5 DEF DestroyWindow, DecoupleWindow
<1>6. CASE SwitchCrtc \/ Restack \/ PresentFlip \/ PresentFlipped
  BY <1>6 DEF SwitchCrtc, Restack, PresentFlip, PresentFlipped
<1> QED BY <1>1, <1>2, <1>3, <1>4, <1>5, <1>6 DEF Next

\* The state that is left is even.
LEMMA EvenState == ASSUME NEW t, Fine(t), Even(t) PROVE Even(State')
<1>1. State' = t BY Becomes DEF Fine, Sane
<1> QED BY <1>1

\* Every step leaves it even.
LEMMA LevelNext ==
  ASSUME OneClient, Level, Next, Calm', Drawn(Full)' PROVE Even(State')
<1>a. Windows = {Full} /\ world \cap {"present", "decouple", "impatient"} = {}
  BY DEF Level, Calm
<1>1. ASSUME NEW i \in Info, VblankEvent(i) PROVE Even(State')
  <2>1. CASE VblankGone(i)
    <3>1. i \in DOMAIN event BY <2>1, SentFacts DEF VblankGone, Level, Driven
    <3>2. event[i].draw = Full /\ Full # None BY <3>1, LevelFacts, BoundsAssumption
    <3> QED BY <2>1, <3>2 DEF VblankGone
  <2>2. CASE VblankSwap(i)
    <3>1. PICK t : Fine(t) /\ SwapTurns(i, t) BY <2>2, SwapStep DEF Level
    <3>2. Even(t) BY <2>2, <3>1, SwapEven
    <3> QED BY <3>1, <3>2, EvenState
  <2>3. CASE VblankComplete(i)
    <3>1. PICK t : Fine(t) /\ CompleteTurns(i, t) BY <2>3, CompleteStep DEF Level
    <3>2. Even(t) BY <2>3, <3>1, CompleteEven
    <3> QED BY <3>1, <3>2, EvenState
  <2>4. CASE VblankMsc(i)
    <3>1. PICK t : Fine(t) /\ Finished(State, t, i, swaps) /\ Unmoved(State, t)
      BY <2>4, MscStep DEF Level
    <3>2. Even(t) BY <2>4, <3>1, MscEven
    <3> QED BY <3>1, <3>2, EvenState
  <2> QED BY <1>1, <2>1, <2>2, <2>3, <2>4 DEF VblankEvent
<1>2. ASSUME FlipEvent PROVE Even(State')
  <2>1. PICK i \in Info : FlipEventChain(i) \/ FlipEventLast(i) \/ FlipEventContinue(i)
    BY <1>2 DEF FlipEvent
  <2>2. CASE FlipEventChain(i)
    <3>1. PICK t : /\ Fine(t)
                   /\ flip_pending \in {0, i} =>
                        Freed(State, t, i, Counted(i)) /\ t.flip = 0 /\ t.flip_pending = 0
                        /\ t.limit = limit
      BY <2>2, ChainStep DEF Level
    <3>2. Even(t) BY <2>2, <3>1, ChainEven
    <3> QED BY <3>1, <3>2, EvenState
  <2>3. CASE FlipEventLast(i)
    <3>1. PICK t : /\ Fine(t) /\ Finished(State, t, i, Counted(i)) /\ t.limit = limit
                   /\ t.flip = 0 /\ t.flip_pending = 0
      BY <2>3, LastStep DEF Level
    <3>2. Even(t) BY <2>3, <3>1, LastEven
    <3> QED BY <3>1, <3>2, EvenState
  <2>4. CASE FlipEventContinue(i)
    <3>1. PICK t : Fine(t) /\ ContinueTurns(i, t) BY <2>4, ContinueStep DEF Level
    <3>2. Even(t) BY <2>4, <3>1, ContinueEven
    <3> QED BY <3>1, <3>2, EvenState
  <2> QED BY <2>1, <2>2, <2>3, <2>4
<1>3. ASSUME NEW c \in Clients, NEW w \in Windows, Request(c, w) PROVE Even(State')
  <2>1. ASSUME NEW mode \in Modes, SwapContinue(c, w, mode) PROVE Even(State')
    <3>1. PICK t : Fine(t) /\ ContinuedTurns(w, mode, t) BY <2>1, ContinuedStep DEF Level
    <3>2. Even(t) BY <2>1, <3>1, ContinuedEven DEF SwapContinue
    <3> QED BY <3>1, <3>2, EvenState
  <2>2. ASSUME NEW mode \in Modes, SwapWait(c, w, mode) PROVE FALSE
    <3>1. flip_pending # 0 /\ event[flip_pending].draw # w BY <2>2 DEF SwapWait
    <3>2. flip_pending \in DOMAIN event
      BY <3>1, StateFields DEF Level, Driven, Sane, Waiting
    <3>3. event[flip_pending].draw = Full BY <3>2, LevelFacts
    <3> QED BY <1>a, <3>1, <3>3
  <2>3. ASSUME NEW mode \in Modes, SwapQueue(c, w, mode) PROVE FALSE
    <3>1. flip_pending = flip BY LevelFacts
    <3> QED BY <2>3, <3>1 DEF SwapQueue
  <2>4. ASSUME NEW mode \in Modes, SwapFlip(c, w, mode) PROVE Even(State')
    <3>1. PICK t : Fine(t) /\ FlipTurns(c, w, t) BY <2>4, SwapFlipStep DEF Level
    <3>2. Even(t) BY <2>4, <3>1, FlippedEven DEF SwapFlip
    <3> QED BY <3>1, <3>2, EvenState
  <2>5. ASSUME NEW mode \in Modes, SwapBlit(c, w, mode) PROVE Even(State')
    <3>1. PICK t : Fine(t) /\ (QueueTurns(c, w, t) \/ BlitTurns(w, t))
      BY <2>5, SwapBlitStep DEF Level
    <3>2. Swaps(c, w) BY <2>5 DEF SwapBlit
    <3>3. Even(t) BY <3>1, <3>2, QueueEven, BlitEven
    <3> QED BY <3>1, <3>3, EvenState
  <2>6. CASE SwapLater(c, w)
    <3>1. PICK t : Fine(t) /\ QueueTurns(c, w, t) BY <2>6, LaterStep DEF Level
    <3>2. Even(t) BY <2>6, <3>1, QueueEven DEF SwapLater
    <3> QED BY <3>1, <3>2, EvenState
  <2>7. CASE SwapSkip(c, w)
    <3>1. PICK t : Fine(t) /\ QueueTurns(c, w, t) BY <2>7, SkipStep DEF Level
    <3>2. Even(t) BY <2>7, <3>1, QueueEven DEF SwapSkip
    <3> QED BY <3>1, <3>2, EvenState
  <2>8. CASE WaitMsc(c, w)
    <3>1. PICK t : /\ Fine(t) /\ t.swaps = swaps /\ Unmoved(State, t)
                   /\ \E i : Added(State, t, i, [Blank(w, c) EXCEPT !.queued = TRUE])
      BY <2>8, WaitStep DEF Level
    <3>2. PICK i : Added(State, t, i, [Blank(w, c) EXCEPT !.queued = TRUE]) BY <3>1
    <3>3. Even(t) BY <2>8, <3>1, <3>2, WaitEven
    <3> QED BY <3>1, <3>3, EvenState
  <2> QED BY <1>3, <2>1, <2>2, <2>3, <2>4, <2>5, <2>6, <2>7, <2>8 DEF Request
<1>4. ASSUME NEW c \in Clients, ClientGone(c) PROVE Even(State')
  <2>1. PICK t : Fine(t) /\ t = GoneFrom(c) BY <1>4, GoneClientStep DEF Level
  <2>2. gone' = gone \cup {c} BY <1>4 DEF ClientGone
  <2>3. <<c, Full>> \notin Draws BY <2>2 DEF Drawn
  <2>4. Even(t) BY <2>1, <2>3, GoneEven
  <2> QED BY <2>1, <2>4, EvenState
<1>5. ASSUME NEW w \in Windows, DestroyWindow(w) PROVE FALSE
  <2>1. gone' = gone \cup {w} /\ w = Full BY <1>5, <1>a DEF DestroyWindow
  <2> QED BY <2>1 DEF Drawn
<1>6. ASSUME NEW w \in Windows, DecoupleWindow(w) PROVE FALSE
  BY <1>6, <1>a DEF DecoupleWindow
<1>7. CASE SwitchCrtc \/ Restack
  <2>1. State' = State BY <1>7 DEF SwitchCrtc, Restack, driver, server, State
  <2> QED BY <2>1 DEF Level
<1>8. CASE PresentFlip BY <1>8, <1>a DEF PresentFlip
<1>9. CASE PresentFlipped
  <2>1. flip \in 0..Events BY LevelFacts
  <2> QED BY <1>9, <2>1, BoundsAssumption DEF PresentFlipped, Present
<1> QED BY <1>1, <1>2, <1>3, <1>4, <1>5, <1>6, <1>7, <1>8, <1>9 DEF Next

\* The count is even at first.
LEMMA InitEven == ASSUME Init PROVE Even(State)
<1> DEFINE s == State
           f == [i \in Info |-> Of(s, i)]
<1>1. /\ s.event = <<>> /\ s.flip_pending = 0 /\ s.flip = 0
      /\ s.swaps = [w \in Windows |-> 0]
  BY StateFields DEF Init
<1> HIDE DEF s
<1>2. DOMAIN s.event = {}
  <2>1. <<>> \in [1..0 -> Info] /\ 1..0 = {} OBVIOUS
  <2> QED BY <1>1, <2>1
<1>3. \A i \in Info : Of(s, i) = 0 BY <1>2 DEF Of
<1>4. f \in [Info -> Int] /\ \A i \in Info : f[i] = 0 BY <1>3
<1>5. Sum(s) = Total(f) BY DEF Sum
<1> HIDE DEF f
<1>6. Sum(s) = 0 BY <1>4, <1>5, TotalZero
<1>7. s.swaps[Full] = 0 BY <1>1, BoundsAssumption
<1> QED BY <1>1, <1>2, <1>6, <1>7 DEF Even, s

\* The invariants together are inductive.
LEMMA EvenInductive == ASSUME OneClient PROVE Spec => [](Inv /\ Evenly)
<1>1. Init => Inv /\ Evenly BY InitInv, InitEven DEF Evenly
<1>2. Inv /\ Evenly /\ [Next]_vars => (Inv /\ Evenly)'
  <2>1. ASSUME Inv, Evenly, Next PROVE (Inv /\ Evenly)'
    <3>1. Inv' BY <2>1, NextDriven, NextAround DEF Inv
    <3>2. ASSUME Calm', Drawn(Full)' PROVE Even(State')
      <4>1. world' = world /\ gone \subseteq gone' BY <2>1, NextWorld
      <4>2. Calm BY <3>2, <4>1 DEF Calm
      <4>3. Drawn(Full) BY <3>2, <4>1 DEF Drawn
      <4>4. Level BY <2>1, <4>2, <4>3 DEF Level, Evenly, Inv
      <4> QED BY <2>1, <3>2, <4>4, LevelNext
    <3>3. Evenly' BY <3>2 DEF Evenly
    <3> QED BY <3>1, <3>3
  <2>2. ASSUME Inv, Evenly, UNCHANGED vars PROVE (Inv /\ Evenly)'
    <3>1. Inv'
      <4>1. Driven' BY <2>2, StillStep DEF Inv, vars, driver, server
      <4>2. Around' BY <2>2 DEF Inv, Around, vars, server
      <4> QED BY <4>1, <4>2 DEF Inv
    <3>2. State' = State /\ world' = world /\ gone' = gone
      BY <2>2 DEF vars, driver, server, State
    <3>3. Evenly' BY <2>2, <3>2 DEF Evenly, Calm, Drawn
    <3> QED BY <3>1, <3>3
  <2> QED BY <2>1, <2>2
<1> QED BY <1>1, <1>2, PTL DEF Spec

\* The swaps that the server counts as pending for the window are those that the
\* events of the driver will complete, as long as nothing goes on that the code is
\* known to lose completions by: none is lost, and none is told twice, when events
\* are chained, merged into a pending one, taken up by the flip that is outstanding
\* or dropped with the CRTC.
THEOREM SwapsAlwaysCounted == ASSUME OneClient PROVE Spec => []SwapsCounted
<1>1. Inv /\ Evenly => SwapsCounted
  <2>1. SUFFICES ASSUME Inv, Evenly, Calm, NEW w \in Windows, Drawn(w)
                 PROVE  swaps[w] = Owed(w)
    BY DEF SwapsCounted
  <2> DEFINE s == State
             f == [i \in Info |-> Of(s, i)]
             g == [i \in Info |->
                     IF i \in DOMAIN event /\ event[i].draw = w THEN OwedFor(event[i]) ELSE 0]
  <2>2. w = Full BY <2>1 DEF Calm
  <2>3. Even(s) BY <2>1, <2>2 DEF Evenly
  <2>4. s.event = event /\ s.swaps = swaps BY StateFields
  <2> HIDE DEF s
  <2>5. \A i \in DOMAIN event : event[i].draw = w BY <2>2, <2>3, <2>4 DEF Even, Shaped
  <2>6. \A i \in Info : Of(s, i) =
          IF i \in DOMAIN event /\ event[i].draw = w THEN OwedFor(event[i]) ELSE 0
    BY <2>4, <2>5 DEF Of
  <2>7. f = g BY <2>6
  <2>8. Sum(s) = Total(f) /\ Owed(w) = Total(g) BY DEF Sum, Owed
  <2> HIDE DEF f, g
  <2> QED BY <2>2, <2>3, <2>4, <2>7, <2>8 DEF Even
<1> QED BY <1>1, EvenInductive, PTL
=============================================================================
