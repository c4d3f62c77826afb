-------------------------- MODULE SnaPresentProofs ---------------------------
(***************************************************************************)
(* The vblank queue of Present, for any numbers of events, infos and       *)
(* frames: what the driver tells the extension is what it promised, the    *)
(* queue is sorted and its first info waits for nothing, the count of the  *)
(* CRTC is right, and no info is woken twice or after it was freed.        *)
(***************************************************************************)
EXTENDS SnaPresent, SnaInduction, FiniteSetTheorems, SequenceTheorems

-----------------------------------------------------------------------------
(* The inductive invariant.                                                  *)

\* The infos that a list of the kernel is about, each of them once.
Of(s) == {s[k].info : k \in DOMAIN s}
Single(s) == \A j, k \in 1..Len(s) : s[j].info = s[k].info => j = k

\* What the kernel has to answer, or has: each info once.
Armed == Of(requests) \cup Of(fd)
KernelOnce == Single(requests) /\ Single(fd) /\ Of(requests) \cap Of(fd) = {}

\* The infos in the queue, its first one or 0, those that wait for another one,
\* and those that count in vblanks.
Members(q) == {q[k] : k \in DOMAIN q}
FirstOf(q) == IF q = <<>> THEN 0 ELSE q[1]
Listed == Members(queue)
First == FirstOf(queue)
Waiting == {i \in Listed : ~info[i].queued}
Marked == {i \in DOMAIN info : info[i].marked}

\* What the X server was at before it was asked for the counter, if it was: there
\* may be add_keepalive on top of it, and nothing else.
Base == IF stack = <<>> THEN At("idle", 0, 0) ELSE stack[Len(stack)]
Shape ==
  /\ Len(stack) <= 2
  /\ \A k \in 1..Len(stack) : IF stack[k].at = "keepalive" THEN k = 1 /\ stack[k].info = 0
                              ELSE k = Len(stack) /\ stack[k].info \in Info
  /\ Len(stack) = 2 => stack[2].at \in {"complete", "flip", "flipend"}

\* The info of a frame of the X server, if that is at one of these places.
Held(b, places) == IF b.at \in places THEN {b.info} ELSE {}

\* Each info is in the queue or is a flip.  Of what can see to it - the kernel
\* (A), a timer (T), the X server (b), a flip (f) that is on its way (g) - at most
\* one does.
Placed(A, T, b, Q, D, f, g) ==
  /\ Q \subseteq D
  /\ A \subseteq Q \cup ({f} \ {0})
  /\ T \subseteq Q \ A
  /\ Held(b, {"rearm", "complete"}) \subseteq Q \ (A \cup T)
  /\ Held(b, {"flip", "flipend"}) \subseteq D \ (Q \cup {f})
  /\ f # 0 => f \in D \ Q
  /\ g <=> f # 0 /\ f \notin A
  /\ D \subseteq Q \cup {f} \cup Held(b, {"flip", "flipend"})

\* A marked info is with the kernel, or its flip has just been told.
MarksOk(A, b, M, f) == M \subseteq A \cup {f} \cup Held(b, {"flip"})

\* An info that waits for another one is with nobody, unless its turn has come.
WaitsOk(A, T, b, W) == W \cap (A \cup T \cup Held(b, {"rearm"})) = {}

\* The first info of the queue waits for nothing, unless its turn has come.
HeadOk(b, W, h) == h \in W => h \in Held(b, {"complete"})

\* What is known of the places of the infos.
Sane(A, T, b, Q, D, M, W, h, f, g) ==
  Placed(A, T, b, Q, D, f, g) /\ MarksOk(A, b, M, f) /\ WaitsOk(A, T, b, W) /\ HeadOk(b, W, h)
Places == Sane(Armed, timers, Base, Listed, DOMAIN info, Marked, Waiting, First, flip, flipping)

\* The queue is sorted.
Sorted(q, f) == \A j, k \in 1..Len(q) : j < k => f[q[j]].target < f[q[k]].target

\* The frames that are known have been shown, but for one that is due.
Numbers ==
  /\ swap <= hw
  /\ \A k \in 1..Len(fd) : fd[k].msc <= hw
  /\ Base.at = "complete" /\ on => Base.msc <= hw + 1
  /\ Base.at = "flip" => Base.msc <= hw

\* The first n events of an info, or all of them, have been told.
Done(b, i, k) ==
  b.info = i /\ (b.at = "flipend" \/ (b.at \in {"complete", "flip"} /\ k <= b.n))

\* Each event is in one info, where it waits for its frame until it is told.
Events1(f, u) ==
  /\ \A i, j \in DOMAIN f : \A k \in 1..Len(f[i].events), l \in 1..Len(f[j].events) :
       f[i].events[k] = f[j].events[l] => i = j /\ k = l
  /\ \A i \in DOMAIN f : \A k \in 1..Len(f[i].events) : f[i].events[k] # u
Pending(f, b, a) ==
  \A i \in DOMAIN f : \A k \in 1..Len(f[i].events) :
    Done(b, i, k) \/ a[f[i].events[k]] = f[i].target
Past(f, n) ==
  \A i \in DOMAIN f : Len(f[i].events) <= n /\ \A k \in 1..Len(f[i].events) : f[i].events[k] <= n
FlipsOk(f, Q) == \A i \in DOMAIN f \ Q : f[i].target = 0 /\ Len(f[i].events) = 1
Progress(f, b) ==
  /\ b.at = "complete" => /\ b.n <= Len(f[b.info].events)
                          /\ b.n > 0 => f[b.info].target <= b.msc
  /\ b.at = "flip" => b.n <= 1
Unflipped ==
  /\ unflip # 0 => unflip <= given /\ asked[unflip] = 0
  /\ unflip # 0 /\ Base.at \in {"flip", "flipend"} => flip = 0
History ==
  /\ \A e \in Event : e > given => asked[e] = None /\ told[e] = <<>>
  /\ \A e \in Event : asked[e] # None => told[e] = <<>>
EventsOk ==
  /\ Events1(info, unflip) /\ Pending(info, Base, asked) /\ Past(info, given)
  /\ FlipsOk(info, Listed) /\ Progress(info, Base)

IInv ==
  /\ TypeOK /\ Shape /\ KernelOnce /\ Places /\ vblanks = Cardinality(Marked)
  /\ Sorted(queue, info) /\ Numbers /\ EventsOk /\ Unflipped /\ History

\* No info that sna_fake_vblank completed and freed is in use again, and waits for
\* another one, when sna_present_queue comes to write to it.
Spared ==
  \A i \in Base.wrote : i \in Waiting => Base.info = i

\* Each info that waits for nothing is seen to.
Woken == Listed \ Waiting \subseteq Armed \cup timers \cup Held(Base, {"rearm", "complete"})

-----------------------------------------------------------------------------
(* Sequences: the lists of the kernel and the queue.                         *)

\* A request or an event comes last.
LEMMA AppendFacts ==
  ASSUME NEW s \in Seq(Vblank), NEW x \in Vblank, x.info \notin Of(s), Single(s)
  PROVE  Append(s, x) \in Seq(Vblank) /\ Of(Append(s, x)) = Of(s) \cup {x.info} /\ Single(Append(s, x))
<1> DEFINE r == Append(s, x)
           n == Len(s)
<1>1. /\ r \in Seq(Vblank) /\ Len(r) = n + 1 /\ r[n + 1] = x /\ n \in Nat
      /\ \A k \in 1..n : r[k] = s[k]
  OBVIOUS
<1>2. DOMAIN s = 1..n /\ DOMAIN r = 1..(n + 1) BY <1>1
<1>7. \A k \in 1..n : s[k].info \in Of(s) BY <1>2 DEF Of
<1> HIDE DEF r, n
<1>3. \A k \in 1..(n + 1) : k = n + 1 \/ k \in 1..n BY <1>1
<1>4. n + 1 \in 1..(n + 1) /\ \A k \in 1..n : k \in 1..(n + 1) BY <1>1
<1>5. Of(r) = Of(s) \cup {x.info} BY <1>1, <1>2, <1>3, <1>4 DEF Of
<1>6. ASSUME NEW j \in 1..Len(r), NEW k \in 1..Len(r), r[j].info = r[k].info PROVE j = k
  BY <1>1, <1>3, <1>6, <1>7 DEF Single, n
<1> QED BY <1>1, <1>5, <1>6 DEF Single, r

\* The event that is read is the first one.
LEMMA TailFacts ==
  ASSUME NEW s \in Seq(Vblank), s # <<>>, Single(s)
  PROVE  /\ Head(s) \in Vblank /\ Head(s).info \in Of(s) /\ Tail(s) \in Seq(Vblank)
         /\ Of(Tail(s)) = Of(s) \ {Head(s).info} /\ Single(Tail(s))
         /\ Head(s) = s[1] /\ 1 \in 1..Len(s)
         /\ \A k \in 1..Len(Tail(s)) : k + 1 \in 1..Len(s) /\ Tail(s)[k] = s[k + 1]
<1> DEFINE r == Tail(s)
           n == Len(s)
<1>1. /\ n \in Nat /\ n >= 1 /\ Len(r) = n - 1 /\ r \in Seq(Vblank)
      /\ \A k \in 1..(n - 1) : r[k] = s[k + 1]
      /\ Head(s) = s[1] /\ s[1] \in Vblank
  OBVIOUS
<1>2. DOMAIN s = 1..n /\ DOMAIN r = 1..(n - 1) BY <1>1
<1> HIDE DEF r
<1>3. \A j, k \in 1..n : s[j].info = s[k].info => j = k BY DEF Single
<1> HIDE DEF n
<1>4. Of(r) = {s[k].info : k \in 2..n}
  <2>1. \A k \in 1..(n - 1) : k + 1 \in 2..n BY <1>1
  <2>2. \A k \in 2..n : k - 1 \in 1..(n - 1) /\ r[k - 1] = s[k] BY <1>1
  <2>3. ASSUME NEW i \in Of(r) PROVE i \in {s[k].info : k \in 2..n}
    <3>1. PICK k \in 1..(n - 1) : i = r[k].info BY <1>2, <2>3 DEF Of
    <3> QED BY <1>1, <2>1, <3>1
  <2>4. ASSUME NEW k \in 2..n PROVE s[k].info \in Of(r)
    <3>1. s[k].info = r[k - 1].info BY <2>2
    <3> QED BY <1>2, <2>2, <3>1 DEF Of
  <2> QED BY <2>3, <2>4
<1>5. 1 \in 1..n /\ \A k \in 1..n : k = 1 \/ k \in 2..n BY <1>1
<1>6. \A k \in 2..n : k \in 1..n /\ k # 1 BY <1>1
<1>7. Of(s) = {s[1].info} \cup {s[k].info : k \in 2..n} BY <1>2, <1>5, <1>6 DEF Of
<1>8. \A k \in 2..n : s[k].info # s[1].info BY <1>3, <1>5, <1>6
<1>9. Of(r) = Of(s) \ {s[1].info} BY <1>4, <1>7, <1>8
<1>10. \A k \in 1..Len(r) : k + 1 \in 1..n /\ r[k] = s[k + 1] BY <1>1
<1>11. ASSUME NEW j \in 1..Len(r), NEW k \in 1..Len(r), r[j].info = r[k].info PROVE j = k
  <2>1. j + 1 = k + 1 BY <1>3, <1>10, <1>11
  <2> QED BY <1>1, <2>1
<1> QED BY <1>1, <1>5, <1>7, <1>9, <1>10, <1>11 DEF Single, r, n

\* Requests are answered, behind the events that are there.
LEMMA SentFacts ==
  ASSUME fd \in Seq(Vblank), NEW s \in Seq(Vblank), NEW m \in Msc,
         Single(fd), Single(s), Of(fd) \cap Of(s) = {}
  PROVE  /\ Sent(s, m) \in Seq(Vblank) /\ Of(Sent(s, m)) = Of(fd) \cup Of(s) /\ Single(Sent(s, m))
         /\ \A k \in 1..Len(Sent(s, m)) : Sent(s, m)[k].msc = m \/ (k \in 1..Len(fd) /\ Sent(s, m)[k] = fd[k])
<1> DEFINE t == [k \in DOMAIN s |-> [s[k] EXCEPT !.msc = m]]
           r == Sent(s, m)
           n == Len(fd)
           p == Len(s)
<1>1. n \in Nat /\ p \in Nat /\ DOMAIN s = 1..p /\ DOMAIN fd = 1..n OBVIOUS
<1>2. \A k \in 1..p : s[k] \in Vblank OBVIOUS
<1>3. \A k \in 1..p : t[k] \in Vblank /\ t[k].info = s[k].info /\ t[k].msc = m
  BY <1>1, <1>2 DEF Vblank
<1>4. t \in Seq(Vblank) /\ Len(t) = p
  <2>1. DOMAIN t = 1..p BY <1>1
  <2>2. t = [k \in 1..p |-> t[k]] BY <2>1
  <2> HIDE DEF t
  <2>3. t \in [1..p -> Vblank] BY <1>3, <2>1, <2>2
  <2> QED BY <1>1, <2>3
<1>5. r = fd \o t BY DEF Sent
<1> HIDE DEF t
<1>6. /\ r \in Seq(Vblank) /\ Len(r) = n + p
      /\ \A k \in 1..n : r[k] = fd[k]
      /\ \A k \in 1..p : r[n + k] = t[k]
  <2>1. r \in Seq(Vblank) /\ Len(r) = n + p BY <1>4, <1>5, ConcatProperties
  <2>2. \A k \in 1..n : r[k] = fd[k] BY <1>1, <1>4, <1>5
  <2>3. ASSUME NEW k \in 1..p PROVE r[n + k] = t[k] BY <1>1, <1>4, <1>5
  <2> QED BY <2>1, <2>2, <2>3
<1>7. DOMAIN r = 1..(n + p) BY <1>6
<1> HIDE DEF r
<1>8. \A j, k \in 1..n : fd[j].info = fd[k].info => j = k BY DEF Single
<1>9. \A j, k \in 1..p : s[j].info = s[k].info => j = k BY DEF Single
<1>12. (\A k \in 1..n : fd[k].info \in Of(fd)) /\ (\A k \in 1..p : s[k].info \in Of(s))
  BY <1>1 DEF Of
<1> HIDE DEF n, p
<1>10. ASSUME NEW k \in 1..(n + p)
       PROVE  \/ k \in 1..n /\ r[k] = fd[k]
              \/ k - n \in 1..p /\ n + (k - n) = k /\ r[k].info = s[k - n].info /\ r[k].msc = m
  <2>1. CASE k \in 1..n BY <1>6, <2>1
  <2>2. CASE k \notin 1..n
    <3>1. k - n \in 1..p /\ n + (k - n) = k BY <1>1, <2>2
    <3>2. r[n + (k - n)] = t[k - n] BY <1>6, <3>1
    <3> QED BY <1>3, <3>1, <3>2
  <2> QED BY <2>1, <2>2
<1>11. Of(r) = Of(fd) \cup Of(s)
  <2>1. ASSUME NEW i \in Of(r) PROVE i \in Of(fd) \cup Of(s)
    <3>1. PICK k \in 1..(n + p) : i = r[k].info BY <1>7, <2>1 DEF Of
    <3> QED BY <1>10, <1>12, <3>1
  <2>2. ASSUME NEW i \in Of(fd) PROVE i \in Of(r)
    <3>1. PICK k \in 1..n : i = fd[k].info BY <1>1, <2>2 DEF Of
    <3>2. k \in 1..(n + p) BY <1>1
    <3> QED BY <1>6, <1>7, <3>1, <3>2 DEF Of
  <2>3. ASSUME NEW i \in Of(s) PROVE i \in Of(r)
    <3>1. PICK k \in 1..p : i = s[k].info BY <1>1, <2>3 DEF Of
    <3>2. n + k \in 1..(n + p) /\ r[n + k].info = i BY <1>1, <1>3, <1>6, <3>1
    <3> QED BY <1>7, <3>2 DEF Of
  <2> QED BY <2>1, <2>2, <2>3
<1>13. ASSUME NEW j \in 1..(n + p), NEW k \in 1..(n + p), r[j].info = r[k].info PROVE j = k
  <2>1. CASE j \in 1..n /\ r[j] = fd[j]
    <3>1. r[k].info \in Of(fd) BY <1>12, <1>13, <2>1
    <3>2. k \in 1..n /\ r[k] = fd[k] BY <1>10, <1>12, <3>1
    <3> QED BY <1>8, <1>13, <2>1, <3>2
  <2>2. CASE j - n \in 1..p /\ n + (j - n) = j /\ r[j].info = s[j - n].info
    <3>1. r[k].info \in Of(s) BY <1>12, <1>13, <2>2
    <3>2. k - n \in 1..p /\ n + (k - n) = k /\ r[k].info = s[k - n].info BY <1>10, <1>12, <3>1
    <3>3. j - n = k - n BY <1>9, <1>13, <2>2, <3>2
    <3> QED BY <1>1, <3>3
  <2> QED BY <1>10, <2>1, <2>2
<1>14. \A k \in 1..Len(r) : r[k].msc = m \/ (k \in 1..n /\ r[k] = fd[k]) BY <1>6, <1>10
<1> QED BY <1>6, <1>11, <1>13, <1>14 DEF Single, r, n

\* What is taken out of a list and what is left are about other infos.
LEMMA CutFacts ==
  ASSUME NEW q \in Seq(Vblank), Single(q), NEW S
  PROVE  /\ Without(q, S) \in Seq(Vblank) /\ Single(Without(q, S))
         /\ Of(Without(q, S)) = {q[k].info : k \in {l \in 1..Len(q) : q[l] \notin S}}
<1> DEFINE r == Without(q, S)
           n == Len(q)
           O == {l \in 1..n : q[l] \notin S}
<1>1. /\ r \in Seq(Vblank)
      /\ \E f : Subsequence(r, q, S, f)
      /\ \A k \in 1..n : q[k] \notin S => \E j \in 1..Len(r) : r[j] = q[k]
  BY WithoutFacts, SMTT(30)
<1> HIDE DEF r
<1>2. PICK f : Subsequence(r, q, S, f) BY <1>1
<1>3. /\ \A k \in 1..Len(r) : f[k] \in 1..n /\ r[k] = q[f[k]] /\ q[f[k]] \notin S
      /\ \A j, k \in 1..Len(r) : j < k => f[j] < f[k]
  BY <1>2 DEF Subsequence
<1>4. Len(r) \in Nat /\ n \in Nat /\ DOMAIN r = 1..Len(r) BY <1>1
<1>5. \A j, k \in 1..n : q[j].info = q[k].info => j = k BY DEF Single
<1> HIDE DEF n
<1>6. ASSUME NEW j \in 1..Len(r), NEW k \in 1..Len(r), r[j].info = r[k].info PROVE j = k
  <2>1. f[j] = f[k] BY <1>3, <1>5, <1>6
  <2>2. ~ (j < k) /\ ~ (k < j) BY <1>3, <1>4, <2>1
  <2> QED BY <1>4, <2>2
<1>7. ASSUME NEW i \in Of(r) PROVE i \in {q[k].info : k \in O}
  <2>1. PICK k \in 1..Len(r) : i = r[k].info BY <1>4, <1>7 DEF Of
  <2>2. f[k] \in O /\ i = q[f[k]].info BY <1>3, <2>1
  <2> QED BY <2>2
<1>8. ASSUME NEW k \in O PROVE q[k].info \in Of(r)
  <2>1. PICK j \in 1..Len(r) : r[j] = q[k] BY <1>1, <1>8
  <2>2. q[k].info = r[j].info BY <2>1
  <2> QED BY <1>4, <2>2 DEF Of
<1>9. Of(r) = {q[k].info : k \in O}
  <2> HIDE DEF O
  <2> QED BY <1>7, <1>8
<1> QED BY <1>1, <1>6, <1>9 DEF Single, r, n

\* A list is cut in two.
LEMMA SplitFacts ==
  ASSUME NEW q \in Seq(Vblank), Single(q), NEW S \in SUBSET Vblank
  PROVE  /\ Of(Without(q, S)) \cup Of(Without(q, Vblank \ S)) = Of(q)
         /\ Of(Without(q, S)) \cap Of(Without(q, Vblank \ S)) = {}
<1> DEFINE A == {l \in 1..Len(q) : q[l] \notin S}
           B == {l \in 1..Len(q) : q[l] \notin Vblank \ S}
<1>1. Of(Without(q, S)) = {q[k].info : k \in A} BY CutFacts
<1>2. Of(Without(q, Vblank \ S)) = {q[k].info : k \in B} BY CutFacts
<1>3. A \cup B = 1..Len(q) /\ A \cap B = {} BY SMT
<1>4. Of(q) = {q[k].info : k \in 1..Len(q)} BY DEF Of
<1>5. \A j, k \in 1..Len(q) : q[j].info = q[k].info => j = k BY DEF Single
<1> HIDE DEF A, B
<1>6. {q[k].info : k \in A} \cup {q[k].info : k \in B} = {q[k].info : k \in 1..Len(q)} BY <1>3
<1>7. {q[k].info : k \in A} \cap {q[k].info : k \in B} = {}
  <2>1. ASSUME NEW j \in A, NEW k \in B, q[j].info = q[k].info PROVE FALSE
    <3>1. j \in 1..Len(q) /\ k \in 1..Len(q) BY <1>3
    <3>2. j = k BY <1>5, <2>1, <3>1
    <3> QED BY <1>3, <3>2
  <2> QED BY <2>1
<1> QED BY <1>1, <1>2, <1>4, <1>6, <1>7

\* An element is put in before the p-th one.
LEMMA InsertFacts ==
  ASSUME NEW T, NEW q \in Seq(T), NEW i \in T, NEW p \in 1..(Len(q) + 1)
  PROVE  /\ InsertAt(q, p, i) \in Seq(T) /\ Len(InsertAt(q, p, i)) = Len(q) + 1
         /\ InsertAt(q, p, i)[p] = i
         /\ \A k \in 1..(p - 1) : InsertAt(q, p, i)[k] = q[k]
         /\ \A k \in p..Len(q) : InsertAt(q, p, i)[k + 1] = q[k]
<1> DEFINE n == Len(q)
           a == SubSeq(q, 1, p - 1)
           b == SubSeq(q, p, n)
           c == a \o <<i>>
           r == InsertAt(q, p, i)
<1>1. n \in Nat /\ p \in Nat /\ 1 <= p /\ p <= n + 1 /\ \A k \in 1..n : q[k] \in T OBVIOUS
<1>2. r = c \o b BY DEF InsertAt
<1>3. /\ a \in Seq(T) /\ Len(a) = p - 1 /\ \A k \in 1..(p - 1) : a[k] = q[k]
  <2>1. \A k \in 1..(p - 1) : q[k] \in T BY <1>1
  <2>2. /\ a \in Seq(T) /\ Len(a) = IF 1 <= p - 1 THEN (p - 1) - 1 + 1 ELSE 0
        /\ \A k \in 1..((p - 1) - 1 + 1) : a[k] = q[1 + k - 1]
    BY <1>1, <2>1, SubSeqProperties
  <2> HIDE DEF a
  <2>3. Len(a) = p - 1 BY <1>1, <2>2
  <2>4. ASSUME NEW k \in 1..(p - 1) PROVE a[k] = q[k]
    <3>1. (p - 1) - 1 + 1 = p - 1 /\ 1 + k - 1 = k BY <1>1
    <3> QED BY <2>2, <3>1
  <2> QED BY <2>2, <2>3, <2>4
<1>4. /\ b \in Seq(T) /\ Len(b) = n - p + 1 /\ \A k \in 1..(n - p + 1) : b[k] = q[p + k - 1]
  <2>1. \A k \in p..n : q[k] \in T BY <1>1
  <2>2. /\ b \in Seq(T) /\ Len(b) = IF p <= n THEN n - p + 1 ELSE 0
        /\ \A k \in 1..(n - p + 1) : b[k] = q[p + k - 1]
    BY <1>1, <2>1, SubSeqProperties
  <2> HIDE DEF b
  <2> QED BY <1>1, <2>2
<1> HIDE DEF a, b, r, n
<1>5. /\ c \in Seq(T) /\ Len(c) = p
      /\ \A k \in 1..(p - 1) : c[k] = q[k]
      /\ c[p] = i
  <2>1. <<i>> \in Seq(T) /\ Len(<<i>>) = 1 /\ <<i>>[1] = i OBVIOUS
  <2>2. /\ c \in Seq(T) /\ Len(c) = (p - 1) + 1
        /\ \A k \in 1..((p - 1) + 1) : c[k] = IF k <= p - 1 THEN a[k] ELSE <<i>>[k - (p - 1)]
    BY <1>3, <2>1, ConcatProperties
  <2> HIDE DEF c
  <2>3. (p - 1) + 1 = p /\ p - (p - 1) = 1 /\ p \in 1..p /\ ~ (p <= p - 1) BY <1>1
  <2>4. c[p] = i BY <2>1, <2>2, <2>3
  <2>5. \A k \in 1..(p - 1) : k \in 1..p /\ k <= p - 1 BY <1>1
  <2> QED BY <1>3, <2>2, <2>3, <2>4, <2>5
<1> HIDE DEF c
<1>6. /\ r \in Seq(T) /\ Len(r) = p + (n - p + 1)
      /\ \A k \in 1..(p + (n - p + 1)) : r[k] = IF k <= p THEN c[k] ELSE b[k - p]
  <2>1. /\ r \in Seq(T) /\ Len(r) = Len(c) + Len(b)
        /\ \A k \in 1..(Len(c) + Len(b)) : r[k] = IF k <= Len(c) THEN c[k] ELSE b[k - Len(c)]
    BY <1>2, <1>4, <1>5, ConcatProperties
  <2>2. Len(c) = p /\ Len(b) = n - p + 1 BY <1>4, <1>5
  <2> QED BY <2>1, <2>2
<1>7. p + (n - p + 1) = n + 1 /\ p \in 1..(n + 1) /\ p <= p BY <1>1
<1>8. r[p] = i BY <1>5, <1>6, <1>7
<1>9. ASSUME NEW k \in 1..(p - 1) PROVE r[k] = q[k]
  <2>1. k \in 1..(n + 1) /\ k <= p BY <1>1
  <2> QED BY <1>5, <1>6, <1>7, <2>1
<1>10. ASSUME NEW k \in p..n PROVE r[k + 1] = q[k]
  <2>1. /\ k + 1 \in 1..(n + 1) /\ ~ (k + 1 <= p) /\ k + 1 - p \in 1..(n - p + 1)
        /\ p + (k + 1 - p) - 1 = k
    BY <1>1
  <2>2. r[k + 1] = b[k + 1 - p] BY <1>6, <1>7, <2>1
  <2> QED BY <1>4, <2>1, <2>2
<1> QED BY <1>6, <1>7, <1>8, <1>9, <1>10 DEF r, n

\* The p-th element is taken out.
LEMMA RemoveFacts ==
  ASSUME NEW T, NEW q \in Seq(T), NEW p \in 1..Len(q)
  PROVE  /\ RemoveAt(q, p) \in Seq(T) /\ Len(RemoveAt(q, p)) = Len(q) - 1
         /\ \A k \in 1..(p - 1) : RemoveAt(q, p)[k] = q[k]
         /\ \A k \in p..(Len(q) - 1) : RemoveAt(q, p)[k] = q[k + 1]
<1> DEFINE n == Len(q)
           a == SubSeq(q, 1, p - 1)
           b == SubSeq(q, p + 1, n)
           r == RemoveAt(q, p)
<1>1. n \in Nat /\ p \in Nat /\ 1 <= p /\ p <= n /\ \A k \in 1..n : q[k] \in T OBVIOUS
<1>2. r = a \o b BY DEF RemoveAt
<1>3. /\ a \in Seq(T) /\ Len(a) = p - 1 /\ \A k \in 1..(p - 1) : a[k] = q[k]
  <2>1. \A k \in 1..(p - 1) : q[k] \in T BY <1>1
  <2>2. /\ a \in Seq(T) /\ Len(a) = IF 1 <= p - 1 THEN (p - 1) - 1 + 1 ELSE 0
        /\ \A k \in 1..((p - 1) - 1 + 1) : a[k] = q[1 + k - 1]
    BY <1>1, <2>1, SubSeqProperties
  <2> HIDE DEF a
  <2>3. Len(a) = p - 1 BY <1>1, <2>2
  <2>4. ASSUME NEW k \in 1..(p - 1) PROVE a[k] = q[k]
    <3>1. (p - 1) - 1 + 1 = p - 1 /\ 1 + k - 1 = k BY <1>1
    <3> QED BY <2>2, <3>1
  <2> QED BY <2>2, <2>3, <2>4
<1>4. /\ b \in Seq(T) /\ Len(b) = n - p /\ \A k \in 1..(n - p) : b[k] = q[p + k]
  <2>1. \A k \in (p + 1)..n : q[k] \in T BY <1>1
  <2>2. /\ b \in Seq(T) /\ Len(b) = IF p + 1 <= n THEN n - (p + 1) + 1 ELSE 0
        /\ \A k \in 1..(n - (p + 1) + 1) : b[k] = q[(p + 1) + k - 1]
    BY <1>1, <2>1, SubSeqProperties
  <2> HIDE DEF b
  <2>3. Len(b) = n - p
    <3>1. Len(b) = IF p + 1 <= n THEN n - (p + 1) + 1 ELSE 0 BY <2>2
    <3>2. n \in Nat /\ p \in Nat /\ p <= n BY <1>1, SMTT(40)
    <3> QED BY <3>1, <3>2
  <2>4. ASSUME NEW k \in 1..(n - p) PROVE b[k] = q[p + k]
    <3>1. n - (p + 1) + 1 = n - p /\ (p + 1) + k - 1 = p + k BY <1>1
    <3> QED BY <2>2, <3>1
  <2> QED BY <2>2, <2>3, <2>4
<1> HIDE DEF a, b, r, n
<1>6. /\ r \in Seq(T) /\ Len(r) = (p - 1) + (n - p)
      /\ \A k \in 1..((p - 1) + (n - p)) : r[k] = IF k <= p - 1 THEN a[k] ELSE b[k - (p - 1)]
  BY <1>2, <1>3, <1>4, ConcatProperties
<1>7. (p - 1) + (n - p) = n - 1 BY <1>1
<1>9. ASSUME NEW k \in 1..(p - 1) PROVE r[k] = q[k]
  <2>1. k \in 1..(n - 1) /\ k <= p - 1 BY <1>1
  <2> QED BY <1>3, <1>6, <1>7, <2>1
<1>10. ASSUME NEW k \in p..(n - 1) PROVE r[k] = q[k + 1]
  <2>1. k \in 1..(n - 1) /\ ~ (k <= p - 1) /\ k - (p - 1) \in 1..(n - p) /\ p + (k - (p - 1)) = k + 1
    BY <1>1
  <2>2. r[k] = b[k - (p - 1)] BY <1>6, <1>7, <2>1
  <2> QED BY <1>4, <2>1, <2>2
<1> QED BY <1>6, <1>7, <1>9, <1>10 DEF r, n

\* In a sorted queue each info is there once.
LEMMA SortedOnce ==
  ASSUME NEW T, NEW q \in Seq(T), NEW f, \A i \in T : f[i].target \in Int, Sorted(q, f),
         NEW j \in 1..Len(q), NEW k \in 1..Len(q), q[j] = q[k]
  PROVE  j = k
<1>1. j \in Nat /\ k \in Nat /\ q[j] \in T /\ q[k] \in T OBVIOUS
<1>2. j < k => f[q[j]].target < f[q[k]].target BY DEF Sorted
<1>3. k < j => f[q[k]].target < f[q[j]].target BY DEF Sorted
<1>4. f[q[k]].target \in Int /\ f[q[j]].target = f[q[k]].target BY <1>1
<1> HIDE DEF Sorted
<1>5. ~ (j < k) /\ ~ (k < j) BY <1>2, <1>3, <1>4
<1> QED BY <1>1, <1>5

\* list_add_tail(&info->link, &tmp->link): the queue stays sorted.
LEMMA InsertSorted ==
  ASSUME NEW T, NEW q \in Seq(T), NEW i \in T, NEW f, \A j \in T : f[j].target \in Int,
         NEW p \in 1..(Len(q) + 1), Sorted(q, f),
         \A k \in 1..(p - 1) : f[q[k]].target <= f[i].target,
         p <= Len(q) => f[i].target < f[q[p]].target,
         \A k \in 1..Len(q) : f[q[k]].target # f[i].target
  PROVE  /\ InsertAt(q, p, i) \in Seq(T) /\ Sorted(InsertAt(q, p, i), f)
         /\ Members(InsertAt(q, p, i)) = Members(q) \cup {i}
         /\ FirstOf(InsertAt(q, p, i)) = IF p = 1 THEN i ELSE FirstOf(q)
         /\ i \notin Members(q)
<1> DEFINE r == InsertAt(q, p, i)
           n == Len(q)
<1>1. /\ r \in Seq(T) /\ Len(r) = n + 1 /\ r[p] = i
      /\ \A k \in 1..(p - 1) : r[k] = q[k]
      /\ \A k \in p..n : r[k + 1] = q[k]
  <2>1. r \in Seq(T) /\ Len(r) = n + 1 BY InsertFacts
  <2>2. r[p] = i BY InsertFacts
  <2>3. \A k \in 1..(p - 1) : r[k] = q[k] BY InsertFacts
  <2>4. \A k \in p..n : r[k + 1] = q[k] BY InsertFacts
  <2> QED BY <2>1, <2>2, <2>3, <2>4
<1>2. n \in Nat /\ p \in Nat /\ 1 <= p /\ p <= n + 1 /\ \A k \in 1..n : q[k] \in T OBVIOUS
<1> HIDE DEF r
<1>3. DOMAIN r = 1..(n + 1) /\ DOMAIN q = 1..n BY <1>1
<1>4. \A j, k \in 1..n : j < k => f[q[j]].target < f[q[k]].target BY DEF Sorted
<1> HIDE DEF n
<1> DEFINE t == f[i].target
<1>5. t \in Int /\ \A k \in 1..n : f[q[k]].target \in Int BY <1>2
<1>6. ASSUME NEW k \in 1..(p - 1) PROVE f[q[k]].target < t
  <2>1. k \in 1..n BY <1>2
  <2>2. f[q[k]].target <= t /\ f[q[k]].target # t BY <2>1 DEF n
  <2> QED BY <1>5, <2>1, <2>2
<1>7. ASSUME NEW k \in p..n PROVE t < f[q[k]].target
  <2>1. p \in 1..n /\ k \in 1..n BY <1>2
  <2>2. t < f[q[p]].target BY <1>2, <2>1 DEF n
  <2>3. k = p \/ f[q[p]].target < f[q[k]].target BY <1>2, <1>4, <2>1
  <2> HIDE DEF t
  <2> QED BY <1>5, <2>1, <2>2, <2>3
<1>8. ASSUME NEW k \in 1..(n + 1)
      PROVE  \/ k \in 1..(p - 1) /\ k \in 1..n /\ r[k] = q[k]
             \/ k = p
             \/ k - 1 \in p..n /\ k - 1 \in 1..n /\ r[k] = q[k - 1]
  <2>1. k < p \/ k = p \/ k > p BY <1>2
  <2>2. CASE k < p
    <3>1. k \in 1..(p - 1) /\ k \in 1..n BY <1>2, <2>2
    <3> QED BY <1>1, <3>1
  <2>3. CASE k > p
    <3>1. k - 1 \in p..n /\ k - 1 \in 1..n /\ k - 1 + 1 = k BY <1>2, <2>3
    <3>2. r[k - 1 + 1] = q[k - 1] BY <1>1, <3>1
    <3> QED BY <3>1, <3>2
  <2> QED BY <2>1, <2>2, <2>3
<1>9. ASSUME NEW j \in 1..(n + 1), NEW k \in 1..(n + 1), j < k
      PROVE  f[r[j]].target < f[r[k]].target
  <2>1. CASE j \in 1..(p - 1) /\ j \in 1..n /\ r[j] = q[j]
    <3>1. CASE k \in 1..n /\ r[k] = q[k] BY <1>4, <1>9, <2>1, <3>1
    <3>2. CASE k = p BY <1>1, <1>6, <2>1, <3>2
    <3>3. CASE k - 1 \in p..n /\ k - 1 \in 1..n /\ r[k] = q[k - 1]
      <4>1. j < k - 1 BY <1>2, <2>1, <3>3
      <4> QED BY <1>4, <2>1, <3>3, <4>1
    <3> QED BY <1>8, <3>1, <3>2, <3>3
  <2>2. CASE j = p
    <3>1. k - 1 \in p..n /\ r[k] = q[k - 1] BY <1>2, <1>8, <1>9, <2>2
    <3> QED BY <1>1, <1>7, <2>2, <3>1
  <2>3. CASE j - 1 \in p..n /\ j - 1 \in 1..n /\ r[j] = q[j - 1]
    <3>1. k - 1 \in p..n /\ k - 1 \in 1..n /\ r[k] = q[k - 1] BY <1>2, <1>8, <1>9, <2>3
    <3>2. j - 1 < k - 1 BY <1>9
    <3> QED BY <1>4, <2>3, <3>1, <3>2
  <2> QED BY <1>8, <2>1, <2>2, <2>3
<1>10. Members(r) = Members(q) \cup {i}
  <2>1. ASSUME NEW j \in Members(r) PROVE j \in Members(q) \cup {i}
    <3>1. PICK k \in 1..(n + 1) : j = r[k] BY <1>3, <2>1 DEF Members
    <3> QED BY <1>1, <1>3, <1>8, <3>1 DEF Members
  <2>2. ASSUME NEW j \in Members(q) PROVE j \in Members(r)
    <3>1. PICK k \in 1..n : j = q[k] BY <1>3, <2>2 DEF Members
    <3>2. k \in 1..(p - 1) \/ k \in p..n BY <1>2
    <3>3. k \in 1..(n + 1) /\ k + 1 \in 1..(n + 1) BY <1>2
    <3> QED BY <1>1, <1>3, <3>1, <3>2, <3>3 DEF Members
  <2>3. i \in Members(r)
    <3>1. p \in 1..(n + 1) BY <1>2
    <3> QED BY <1>1, <1>3, <3>1 DEF Members
  <2> QED BY <2>1, <2>2, <2>3
<1>11. FirstOf(r) = IF p = 1 THEN i ELSE FirstOf(q)
  <2>1. r # <<>> BY <1>1, <1>2
  <2>2. CASE p # 1
    <3>1. 1 \in 1..(p - 1) /\ n >= 1 BY <1>2, <2>2
    <3>2. q # <<>> BY <3>1 DEF n
    <3> QED BY <1>1, <2>1, <2>2, <3>1, <3>2 DEF FirstOf
  <2> QED BY <1>1, <2>1, <2>2 DEF FirstOf
<1>12. i \notin Members(q)
  <2>1. \A k \in 1..n : f[q[k]].target # t BY DEF n
  <2> QED BY <1>3, <2>1 DEF Members
<1> QED BY <1>1, <1>9, <1>10, <1>11, <1>12 DEF Sorted, r

\* _list_del: the one behind takes the place.
LEMMA RemoveSorted ==
  ASSUME NEW T, NEW q \in Seq(T), NEW f, \A j \in T : f[j].target \in Int,
         NEW p \in 1..Len(q), Sorted(q, f)
  PROVE  /\ RemoveAt(q, p) \in Seq(T) /\ Sorted(RemoveAt(q, p), f)
         /\ Members(RemoveAt(q, p)) = Members(q) \ {q[p]}
         /\ p # 1 => FirstOf(RemoveAt(q, p)) = FirstOf(q) /\ FirstOf(q) # q[p]
         /\ p = 1 => FirstOf(q) = q[p] /\
              FirstOf(RemoveAt(q, p)) = IF p < Len(q) THEN q[p + 1] ELSE 0
         /\ p < Len(q) => q[p + 1] \in Members(q) \ {q[p]}
<1> DEFINE r == RemoveAt(q, p)
           n == Len(q)
<1>1. /\ r \in Seq(T) /\ Len(r) = n - 1
      /\ \A k \in 1..(p - 1) : r[k] = q[k]
      /\ \A k \in p..(n - 1) : r[k] = q[k + 1]
  BY RemoveFacts
<1>2. n \in Nat /\ p \in Nat /\ 1 <= p /\ p <= n OBVIOUS
<1> HIDE DEF r
<1>3. DOMAIN r = 1..(n - 1) /\ DOMAIN q = 1..n BY <1>1, <1>2
<1>4. \A j, k \in 1..n : j < k => f[q[j]].target < f[q[k]].target BY DEF Sorted
<1>5. \A j, k \in 1..n : q[j] = q[k] => j = k BY SortedOnce
<1>13. n = 0 <=> q = <<>> OBVIOUS
<1>14. n - 1 = 0 <=> r = <<>> BY <1>1
<1> HIDE DEF n
<1>8. ASSUME NEW k \in 1..(n - 1)
      PROVE  \/ k \in 1..(p - 1) /\ k \in 1..n /\ r[k] = q[k]
             \/ k \in p..(n - 1) /\ k + 1 \in 1..n /\ r[k] = q[k + 1]
  <2>1. k < p \/ k >= p BY <1>2
  <2>2. CASE k < p
    <3>1. k \in 1..(p - 1) /\ k \in 1..n BY <1>2, <2>2
    <3> QED BY <1>1, <3>1
  <2>3. CASE k >= p
    <3>1. k \in p..(n - 1) /\ k + 1 \in 1..n BY <1>2, <2>3
    <3> QED BY <1>1, <3>1
  <2> QED BY <2>1, <2>2, <2>3
<1>9. ASSUME NEW j \in 1..(n - 1), NEW k \in 1..(n - 1), j < k
      PROVE  f[r[j]].target < f[r[k]].target
  <2>1. CASE j \in 1..(p - 1) /\ j \in 1..n /\ r[j] = q[j]
    <3>1. CASE k \in 1..n /\ r[k] = q[k] BY <1>4, <1>9, <2>1, <3>1
    <3>2. CASE k + 1 \in 1..n /\ r[k] = q[k + 1]
      <4>1. j < k + 1 BY <1>9
      <4> QED BY <1>4, <2>1, <3>2, <4>1
    <3> QED BY <1>8, <3>1, <3>2
  <2>2. CASE j \in p..(n - 1) /\ j + 1 \in 1..n /\ r[j] = q[j + 1]
    <3>1. k \in p..(n - 1) BY <1>2, <1>9, <2>2
    <3>2. k + 1 \in 1..n /\ r[k] = q[k + 1] BY <1>2, <1>8, <3>1
    <3>3. j + 1 < k + 1 BY <1>9
    <3> QED BY <1>4, <2>2, <3>2, <3>3
  <2> QED BY <1>8, <2>1, <2>2
<1>10. Members(r) = Members(q) \ {q[p]}
  <2>1. ASSUME NEW j \in Members(r) PROVE j \in Members(q) \ {q[p]}
    <3>1. PICK k \in 1..(n - 1) : j = r[k] BY <1>3, <2>1 DEF Members
    <3>2. CASE k \in 1..(p - 1) /\ k \in 1..n /\ r[k] = q[k]
      <4>1. k # p /\ p \in 1..n BY <1>2, <3>2
      <4> QED BY <1>3, <1>5, <3>1, <3>2, <4>1 DEF Members
    <3>3. CASE k \in p..(n - 1) /\ k + 1 \in 1..n /\ r[k] = q[k + 1]
      <4>1. k + 1 # p /\ p \in 1..n BY <1>2, <3>3
      <4> QED BY <1>3, <1>5, <3>1, <3>3, <4>1 DEF Members
    <3> QED BY <1>8, <3>2, <3>3
  <2>2. ASSUME NEW j \in Members(q), j # q[p] PROVE j \in Members(r)
    <3>1. PICK k \in 1..n : j = q[k] BY <1>3, <2>2 DEF Members
    <3>2. k \in 1..(p - 1) \/ k - 1 \in p..(n - 1) BY <1>2, <2>2, <3>1
    <3>3. CASE k \in 1..(p - 1)
      <4>1. k \in 1..(n - 1) BY <1>2, <3>3
      <4> QED BY <1>1, <1>3, <3>1, <3>3, <4>1 DEF Members
    <3>4. CASE k - 1 \in p..(n - 1)
      <4>1. k - 1 \in 1..(n - 1) /\ k - 1 + 1 = k BY <1>2, <3>4
      <4>2. r[k - 1] = j BY <1>1, <3>1, <3>4, <4>1
      <4> QED BY <1>3, <4>1, <4>2 DEF Members
    <3> QED BY <3>2, <3>3, <3>4
  <2> QED BY <2>1, <2>2
<1>11. p # 1 => FirstOf(r) = FirstOf(q) /\ FirstOf(q) # q[p]
  <2>1. SUFFICES ASSUME p # 1 PROVE FirstOf(r) = FirstOf(q) /\ FirstOf(q) # q[p] OBVIOUS
  <2>2. 1 \in 1..(p - 1) /\ 1 \in 1..n /\ p \in 1..n /\ n # 0 /\ n - 1 # 0 BY <1>2, <2>1
  <2>3. r[1] = q[1] /\ q[1] # q[p] BY <1>1, <1>5, <2>1, <2>2
  <2> QED BY <1>13, <1>14, <2>2, <2>3 DEF FirstOf
<1>12. p = 1 => FirstOf(q) = q[p] /\ FirstOf(r) = IF p < n THEN q[p + 1] ELSE 0
  <2>1. SUFFICES ASSUME p = 1 PROVE FirstOf(q) = q[p] /\ FirstOf(r) = IF p < n THEN q[p + 1] ELSE 0
    OBVIOUS
  <2>2. n # 0 BY <1>2
  <2>3. CASE p < n
    <3>1. 1 \in p..(n - 1) /\ n - 1 # 0 BY <1>2, <2>1, <2>3
    <3>2. r[1] = q[1 + 1] BY <1>1, <3>1
    <3> QED BY <1>13, <1>14, <2>1, <2>2, <2>3, <3>1, <3>2 DEF FirstOf
  <2>4. CASE ~ (p < n)
    <3>1. n - 1 = 0 BY <1>2, <2>1, <2>4
    <3> QED BY <1>13, <1>14, <2>1, <2>2, <2>4, <3>1 DEF FirstOf
  <2> QED BY <2>3, <2>4
<1>15. p < n => q[p + 1] \in Members(q) \ {q[p]}
  <2>1. p < n => p + 1 \in 1..n /\ p \in 1..n /\ p + 1 # p BY <1>2
  <2> QED BY <1>3, <1>5, <2>1 DEF Members
<1> QED BY <1>1, <1>2, <1>9, <1>10, <1>11, <1>12, <1>15 DEF Sorted, r, n

\* Of the entries for an info there is one or none.
LEMMA OneEntry ==
  ASSUME NEW s \in Seq(Vblank), Single(s), NEW i
  PROVE  Cardinality({k \in DOMAIN s : s[k].info = i}) = IF i \in Of(s) THEN 1 ELSE 0
<1> DEFINE K == {k \in DOMAIN s : s[k].info = i}
<1>1. DOMAIN s = 1..Len(s) OBVIOUS
<1>2. CASE i \in Of(s)
  <2>1. PICK k \in DOMAIN s : s[k].info = i BY <1>2 DEF Of
  <2>2. K = {k} BY <1>1, <2>1 DEF Single
  <2> QED BY <1>2, <2>2, FS_Singleton
<1>3. CASE i \notin Of(s)
  <2>1. K = {} BY <1>3 DEF Of
  <2> QED BY <1>3, <2>1, FS_EmptySet
<1> QED BY <1>2, <1>3

-----------------------------------------------------------------------------
(* The stack.                                                                *)

\* While the X server works for the driver it does nothing else.
LEMMA StackFacts ==
  ASSUME stack \in Seq(Frame), Shape
  PROVE  /\ top.at = "idle" <=> stack = <<>>
         /\ top.at \notin {"idle", "keepalive"} => top \in Frame /\ stack = <<top>> /\ Base = top /\ top.info \in Info
         /\ top.at = "keepalive" => top \in Frame
         /\ Tail(stack) \in Seq(Frame) \/ stack = <<>>
         /\ Base = At("idle", 0, 0) \/ Base \in Frame
<1> DEFINE n == Len(stack)
<1>1. n \in Nat /\ n <= 2 /\ (n = 0 <=> stack = <<>>) /\ \A k \in 1..n : stack[k] \in Frame BY DEF Shape
<1>2. \A f \in Frame : f.at # "idle" BY DEF Frame
<1>3. stack # <<>> => top = stack[1] /\ 1 \in 1..n BY <1>1 DEF top
<1>4. stack = <<>> => top.at = "idle" /\ Base = At("idle", 0, 0) BY DEF top, At, Base
<1>5. ASSUME stack # <<>>, top.at # "keepalive"
      PROVE  n = 1 /\ top.info \in Info
  <2>1. stack[1].at # "keepalive" /\ 1 \in 1..n /\ top = stack[1] BY <1>3, <1>5
  <2> HIDE DEF top
  <2>2. 1 = Len(stack) /\ stack[1].info \in Info BY <2>1 DEF Shape
  <2> QED BY <2>1, <2>2
<1>6. ASSUME stack # <<>>, n = 1 PROVE stack = <<top>> /\ Base = top
  BY <1>3, <1>6 DEF Base
<1>7. stack # <<>> => Base \in Frame BY <1>1 DEF Base
<1>8. stack # <<>> => Tail(stack) \in Seq(Frame) OBVIOUS
<1> QED BY <1>1, <1>2, <1>3, <1>4, <1>5, <1>6, <1>7, <1>8

\* The stack holds one frame, which is not add_keepalive.
LEMMA OneFrame ==
  ASSUME NEW f \in Frame, f.at # "keepalive", f.info \in Info, stack' = <<f>>
  PROVE  stack' \in Seq(Frame) /\ Shape' /\ Base' = f /\ stack' # <<>>
<1>1. Len(<<f>>) = 1 /\ <<f>>[1] = f /\ <<f>> \in Seq(Frame) /\ <<f>> # <<>> OBVIOUS
<1>2. Shape' BY <1>1 DEF Shape
<1>3. Base' = f BY <1>1 DEF Base
<1> QED BY <1>1, <1>2, <1>3

\* The X server is idle.
LEMMA NoFrame ==
  ASSUME stack' = <<>>
  PROVE  stack' \in Seq(Frame) /\ Shape' /\ Base' = At("idle", 0, 0) /\ Base'.at = "idle" /\ Base'.info = 0
BY DEF Shape, Base, At

\* A call from where the X server is idle.
LEMMA CallFacts ==
  ASSUME stack = <<>>, NEW f \in Frame, f.at # "keepalive", f.info \in Info, Call(f)
  PROVE  stack' \in Seq(Frame) /\ Shape' /\ Base' = f /\ stack' # <<>>
<1>1. stack' = <<f>>
  <2>1. stack' = <<f>> \o <<>> BY DEF Call
  <2> QED BY <2>1, ConcatEmptySeq
<1> QED BY <1>1, OneFrame

\* The frame on top is changed.
LEMMA BecomeFacts ==
  ASSUME stack \in Seq(Frame), Shape, top.at \notin {"idle", "keepalive"},
         NEW f \in Frame, f.at # "keepalive", f.info \in Info, Become(f)
  PROVE  stack' \in Seq(Frame) /\ Shape' /\ Base' = f /\ stack' # <<>>
<1>1. stack' = <<f>>
  <2>1. stack = <<top>> BY StackFacts
  <2>2. Tail(<<top>>) = <<>> OBVIOUS
  <2>3. stack' = <<f>> \o Tail(stack) BY DEF Become
  <2> HIDE DEF top
  <2>4. Tail(stack) = <<>> BY <2>1, <2>2
  <2>5. stack' = <<f>> \o <<>> BY <2>3, <2>4
  <2> QED BY <2>5, ConcatEmptySeq
<1> QED BY <1>1, OneFrame

\* The frame on top is left.
LEMMA LeaveFacts ==
  ASSUME stack \in Seq(Frame), Shape, top.at \notin {"idle", "keepalive"}, Leave
  PROVE  stack' = <<>> /\ stack' \in Seq(Frame) /\ Shape' /\ Base' = At("idle", 0, 0)
         /\ Base'.at = "idle" /\ Base'.info = 0
<1>1. stack' = <<>>
  <2>1. stack = <<top>> BY StackFacts
  <2>2. Tail(<<top>>) = <<>> OBVIOUS
  <2> QED BY <2>1, <2>2 DEF Leave
<1> QED BY <1>1, NoFrame

\* Nothing but the counter is asked for, or that is done.
Aside == Base' = Base \/ (Base.at \in {"idle", "keepalive"} /\ Base'.at \in {"idle", "keepalive"})

\* add_keepalive on top of what the X server was at.
LEMMA TwoFrames ==
  ASSUME NEW f \in Frame, f.at = "keepalive", f.info = 0,
         NEW b \in Frame, b.info \in Info, b.at \in {"complete", "flip", "flipend"},
         stack' = <<f>> \o <<b>>
  PROVE  stack' \in Seq(Frame) /\ Shape' /\ Base' = b /\ stack' # <<>>
<1> DEFINE x == <<f>>
           y == <<b>>
<1>1. x \in Seq(Frame) /\ y \in Seq(Frame) /\ Len(x) = 1 /\ Len(y) = 1 /\ stack' = x \o y
      /\ x[1] = f /\ y[1] = b
  OBVIOUS
<1> HIDE DEF x, y
<1>2. /\ x \o y \in Seq(Frame) /\ Len(x \o y) = Len(x) + Len(y)
      /\ \A k \in 1..(Len(x) + Len(y)) : (x \o y)[k] = IF k <= Len(x) THEN x[k] ELSE y[k - Len(x)]
  BY <1>1, ConcatProperties
<1>3. /\ stack' \in Seq(Frame) /\ Len(stack') = 1 + 1
      /\ \A k \in 1..(1 + 1) : stack'[k] = IF k <= 1 THEN x[k] ELSE y[k - 1]
  BY <1>1, <1>2
<1>4. Len(stack') = 2 /\ stack'[1] = f /\ stack'[2] = b BY <1>1, <1>3
<1>5. stack' # <<>> BY <1>3
<1>6. Base' = b BY <1>4, <1>5 DEF Base
<1>7. Shape' BY <1>4 DEF Shape
<1> QED BY <1>3, <1>5, <1>6, <1>7

\* add_keepalive is called.
LEMMA KeepAliveCalled ==
  ASSUME stack \in Seq(Frame), Shape, top.at \in {"idle", "complete", "flip", "flipend"},
         NEW f \in Frame, f.at = "keepalive", f.info = 0,
         stack' = <<f>> \o stack
  PROVE  stack' \in Seq(Frame) /\ Shape' /\ Aside /\ stack' # <<>>
<1>1. CASE stack = <<>>
  <2>1. stack' = <<f>> BY <1>1, ConcatEmptySeq
  <2>2. Len(<<f>>) = 1 /\ <<f>>[1] = f /\ <<f>> \in Seq(Frame) /\ <<f>> # <<>> OBVIOUS
  <2>3. Base' = f BY <2>1, <2>2 DEF Base
  <2>4. Base.at = "idle" BY <1>1 DEF Base, At
  <2>5. Shape' BY <2>1, <2>2 DEF Shape
  <2> QED BY <2>1, <2>2, <2>3, <2>4, <2>5 DEF Aside
<1>2. CASE stack # <<>>
  <2>1. stack = <<top>> /\ Base = top /\ top \in Frame /\ top.info \in Info BY <1>2, StackFacts
  <2>3. stack' = <<f>> \o <<top>> BY <2>1
  <2>4. top.at \in {"complete", "flip", "flipend"} BY <1>2, StackFacts
  <2> HIDE DEF top
  <2>5. stack' \in Seq(Frame) /\ Shape' /\ Base' = top /\ stack' # <<>>
    BY <2>1, <2>3, <2>4, TwoFrames
  <2> QED BY <2>1, <2>5 DEF Aside
<1> QED BY <1>1, <1>2

\* add_keepalive returns.
LEMMA KeepAliveLeft ==
  ASSUME stack \in Seq(Frame), Shape, top.at = "keepalive", Leave
  PROVE  stack' \in Seq(Frame) /\ Shape' /\ Aside
<1> DEFINE n == Len(stack)
<1>1. n \in Nat /\ n <= 2 /\ (n = 0 <=> stack = <<>>) /\ stack # <<>>
      /\ \A k \in 1..n : stack[k] \in Frame
  BY StackFacts DEF Shape
<1>2. top = stack[1] BY <1>1 DEF top
<1>3. CASE n = 1
  <2>1. stack = <<stack[1]>> BY <1>1, <1>3
  <2>2. Tail(stack) = <<>> BY <2>1, <1>3
  <2>3. stack' = <<>> BY <2>2 DEF Leave
  <2>4. Base = stack[1] BY <1>1, <1>3 DEF Base
  <2> QED BY <1>2, <2>3, <2>4, NoFrame DEF Aside
<1>4. CASE n = 2
  <2>1. stack = <<stack[1], stack[2]>> BY <1>1, <1>4
  <2> DEFINE a == stack[1]
             b == stack[2]
  <2>2. stack = <<a, b>> BY <2>1
  <2> HIDE DEF a, b
  <2>7. Tail(<<a, b>>) = <<b>> OBVIOUS
  <2>3. stack' = <<stack[2]>> BY <2>2, <2>7 DEF Leave, b
  <2>4. Base = stack[2] BY <1>1, <1>4 DEF Base
  <2>5. stack[2].at # "keepalive" /\ stack[2].info \in Info /\ stack[2] \in Frame
    BY <1>1, <1>4 DEF Shape
  <2>6. stack' \in Seq(Frame) /\ Shape' /\ Base' = stack[2] BY <2>3, <2>5, OneFrame
  <2> QED BY <2>4, <2>6 DEF Aside
<1> HIDE DEF n
<1>5. n = 1 \/ n = 2 BY <1>1
<1> QED BY <1>3, <1>4, <1>5

-----------------------------------------------------------------------------
(* The kernel.                                                               *)

\* After a step the kernel has the infos of A to answer.
KernelAs(A) ==
  /\ requests' \in Seq(Vblank) /\ fd' \in Seq(Vblank) /\ KernelOnce' /\ Armed' = A
  /\ \A k \in 1..Len(fd') : fd'[k].msc <= hw'

\* What is known of the kernel before it.
KernelOk ==
  /\ requests \in Seq(Vblank) /\ fd \in Seq(Vblank) /\ KernelOnce
  /\ hw \in 0..MaxMsc /\ \A k \in 1..Len(fd) : fd[k].msc <= hw

\* Nothing happens.
LEMMA KernelSame ==
  ASSUME KernelOk, UNCHANGED <<hw, requests, fd>> PROVE KernelAs(Armed)
<1>1. requests' = requests /\ fd' = fd /\ hw' = hw OBVIOUS
<1>2. KernelOnce' BY <1>1 DEF KernelOk, KernelOnce
<1>3. Armed' = Armed BY <1>1 DEF Armed
<1> QED BY <1>1, <1>2, <1>3 DEF KernelOk, KernelAs

\* sna_wait_vblank
LEMMA WaitFacts ==
  ASSUME KernelOk, NEW i \in Info, NEW m \in Msc, i \notin Armed, WaitVblank(i, m)
  PROVE  KernelAs(Armed \cup {i}) /\ on /\ UNCHANGED <<on, hw, flipping>>
<1>1. on /\ UNCHANGED <<on, hw, flipping>> BY DEF WaitVblank
<1>2. /\ requests \in Seq(Vblank) /\ fd \in Seq(Vblank) /\ Single(requests) /\ Single(fd)
      /\ Of(requests) \cap Of(fd) = {} /\ hw \in 0..MaxMsc
      /\ \A k \in 1..Len(fd) : fd[k].msc <= hw
      /\ i \notin Of(requests) /\ i \notin Of(fd)
  BY DEF KernelOk, KernelOnce, Armed
<1>3. CASE m <= hw
  <2> DEFINE x == [info |-> i, msc |-> hw]
  <2>1. x \in Vblank /\ x.info = i /\ x.msc = hw BY <1>2, BoundsAssumption DEF Vblank, Msc
  <2>2. fd' = Append(fd, x) /\ requests' = requests BY <1>3 DEF WaitVblank
  <2> HIDE DEF x
  <2>3. fd' \in Seq(Vblank) /\ Of(fd') = Of(fd) \cup {i} /\ Single(fd')
    <3>1. /\ Append(fd, x) \in Seq(Vblank) /\ Of(Append(fd, x)) = Of(fd) \cup {x.info}
          /\ Single(Append(fd, x))
      BY <1>2, <2>1, AppendFacts
    <3> QED BY <2>1, <2>2, <3>1
  <2>4. \A k \in 1..Len(fd') : fd'[k].msc <= hw
    <3>1. \A k \in 1..Len(fd') : fd'[k] = x \/ (k \in 1..Len(fd) /\ fd'[k] = fd[k])
      BY <1>2, <2>1, <2>2
    <3> QED BY <1>2, <2>1, <3>1
  <2>5. Single(requests') /\ Of(requests') = Of(requests) BY <1>2, <2>2
  <2>6. KernelOnce' BY <1>2, <2>3, <2>5 DEF KernelOnce
  <2>7. Armed' = Armed \cup {i} BY <2>3, <2>5 DEF Armed
  <2> QED BY <1>1, <1>2, <2>2, <2>3, <2>4, <2>6, <2>7 DEF KernelAs
<1>4. CASE ~ (m <= hw)
  <2> DEFINE x == [info |-> i, msc |-> m]
  <2>1. x \in Vblank /\ x.info = i BY DEF Vblank
  <2>2. requests' = Append(requests, x) /\ fd' = fd BY <1>4 DEF WaitVblank
  <2> HIDE DEF x
  <2>3. requests' \in Seq(Vblank) /\ Of(requests') = Of(requests) \cup {i} /\ Single(requests')
    <3>1. /\ Append(requests, x) \in Seq(Vblank) /\ Of(Append(requests, x)) = Of(requests) \cup {x.info}
          /\ Single(Append(requests, x))
      BY <1>2, <2>1, AppendFacts
    <3> QED BY <2>1, <2>2, <3>1
  <2>5. Single(fd') /\ Of(fd') = Of(fd) BY <1>2, <2>2
  <2>6. KernelOnce' BY <1>2, <2>3, <2>5 DEF KernelOnce
  <2>7. Armed' = Armed \cup {i} BY <2>3, <2>5 DEF Armed
  <2> QED BY <1>1, <1>2, <2>2, <2>3, <2>6, <2>7 DEF KernelAs
<1> QED BY <1>1, <1>3, <1>4

\* An event is read.
LEMMA ReadFacts ==
  ASSUME KernelOk, fd # <<>>, fd' = Tail(fd), UNCHANGED <<requests, hw>>
  PROVE  /\ KernelAs(Armed \ {Head(fd).info}) /\ Head(fd) \in Vblank
         /\ Head(fd).info \in Armed /\ Head(fd).msc <= hw
<1>1. /\ requests \in Seq(Vblank) /\ fd \in Seq(Vblank) /\ Single(requests) /\ Single(fd)
      /\ Of(requests) \cap Of(fd) = {} /\ \A k \in 1..Len(fd) : fd[k].msc <= hw
  BY DEF KernelOk, KernelOnce
<1>2. /\ Head(fd) \in Vblank /\ Head(fd).info \in Of(fd) /\ fd' \in Seq(Vblank)
      /\ Of(fd') = Of(fd) \ {Head(fd).info} /\ Single(fd') /\ Head(fd) = fd[1] /\ 1 \in 1..Len(fd)
      /\ \A k \in 1..Len(fd') : k + 1 \in 1..Len(fd) /\ fd'[k] = fd[k + 1]
  BY <1>1, TailFacts
<1>3. Single(requests') /\ Of(requests') = Of(requests) BY <1>1
<1>4. KernelOnce' BY <1>1, <1>2, <1>3 DEF KernelOnce
<1>5. Armed' = Armed \ {Head(fd).info} BY <1>1, <1>2, <1>3 DEF Armed
<1>6. \A k \in 1..Len(fd') : fd'[k].msc <= hw BY <1>1, <1>2
<1> QED BY <1>1, <1>2, <1>4, <1>5, <1>6 DEF KernelAs, Armed

\* A frame.
LEMMA TickFacts ==
  ASSUME KernelOk, Tick PROVE KernelAs(Armed) /\ hw' \in 0..MaxMsc /\ hw < hw'
<1>1. /\ requests \in Seq(Vblank) /\ fd \in Seq(Vblank) /\ Single(requests) /\ Single(fd)
      /\ Of(requests) \cap Of(fd) = {} /\ hw \in 0..MaxMsc /\ \A k \in 1..Len(fd) : fd[k].msc <= hw
  BY DEF KernelOk, KernelOnce
<1> DEFINE D == {r \in Vblank : r.msc <= hw + 1}
           m == hw + 1
           s == Without(requests, Vblank \ D)
<1>2. hw' = m /\ fd' = Sent(s, m) /\ requests' = Without(requests, D) /\ hw < MaxMsc BY DEF Tick
<1>3. m \in Msc /\ m \in 0..MaxMsc /\ hw < m BY <1>1, <1>2, BoundsAssumption DEF Msc
<1>4. D \in SUBSET Vblank OBVIOUS
<1> HIDE DEF D, m
<1>5. /\ s \in Seq(Vblank) /\ Single(s)
      /\ requests' \in Seq(Vblank) /\ Single(requests')
  BY <1>1, <1>2, CutFacts
<1>6. Of(requests') \cup Of(s) = Of(requests) /\ Of(requests') \cap Of(s) = {}
  BY <1>1, <1>2, <1>4, SplitFacts
<1> HIDE DEF s
<1>7. /\ fd' \in Seq(Vblank) /\ Of(fd') = Of(fd) \cup Of(s) /\ Single(fd')
      /\ \A k \in 1..Len(fd') : fd'[k].msc = m \/ (k \in 1..Len(fd) /\ fd'[k] = fd[k])
  <2>1. Of(fd) \cap Of(s) = {} BY <1>1, <1>6
  <2> QED BY <1>1, <1>2, <1>3, <1>5, <2>1, SentFacts
<1>8. \A k \in 1..Len(fd') : fd'[k].msc <= m
  <2>1. ASSUME NEW k \in 1..Len(fd') PROVE fd'[k].msc <= m
    <3>1. fd'[k].msc = m \/ (k \in 1..Len(fd) /\ fd'[k] = fd[k]) BY <1>7
    <3>2. CASE fd'[k].msc = m BY <1>3, <3>2 DEF Msc
    <3>3. CASE k \in 1..Len(fd) /\ fd'[k] = fd[k]
      <4>1. fd[k] \in Vblank /\ fd[k].msc <= hw BY <1>1, <3>3
      <4>2. fd[k].msc \in Int BY <4>1 DEF Vblank, Msc
      <4> QED BY <1>1, <1>3, <3>3, <4>1, <4>2
    <3> QED BY <3>1, <3>2, <3>3
  <2> QED BY <2>1
<1>9. KernelOnce' BY <1>1, <1>5, <1>6, <1>7 DEF KernelOnce
<1>10. Armed' = Armed BY <1>6, <1>7 DEF Armed
<1> QED BY <1>2, <1>3, <1>5, <1>7, <1>8, <1>9, <1>10 DEF KernelAs

\* The CRTC is switched.
LEMMA SwitchFacts ==
  ASSUME KernelOk, SwitchCrtc PROVE KernelAs(Armed)
<1>1. /\ requests \in Seq(Vblank) /\ fd \in Seq(Vblank) /\ Single(requests) /\ Single(fd)
      /\ Of(requests) \cap Of(fd) = {} /\ hw \in 0..MaxMsc /\ \A k \in 1..Len(fd) : fd[k].msc <= hw
      /\ hw' = hw
  BY DEF KernelOk, KernelOnce, SwitchCrtc
<1>2. CASE on
  <2>1. fd' = Sent(requests, hw) /\ requests' = <<>> BY <1>2 DEF SwitchCrtc
  <2>2. hw \in Msc BY <1>1, BoundsAssumption DEF Msc
  <2>3. /\ fd' \in Seq(Vblank) /\ Of(fd') = Of(fd) \cup Of(requests) /\ Single(fd')
        /\ \A k \in 1..Len(fd') : fd'[k].msc = hw \/ (k \in 1..Len(fd) /\ fd'[k] = fd[k])
    BY <1>1, <2>1, <2>2, SentFacts
  <2>4. Single(requests') /\ Of(requests') = {} /\ requests' \in Seq(Vblank)
    BY <2>1 DEF Single, Of
  <2>5. \A k \in 1..Len(fd') : fd'[k].msc <= hw BY <1>1, <2>3
  <2>6. KernelOnce' BY <2>3, <2>4 DEF KernelOnce
  <2>7. Armed' = Armed BY <2>3, <2>4 DEF Armed
  <2> QED BY <1>1, <2>3, <2>4, <2>5, <2>6, <2>7 DEF KernelAs
<1>3. CASE ~on
  <2>1. UNCHANGED <<hw, requests, fd>> BY <1>1, <1>3 DEF SwitchCrtc
  <2> QED BY <2>1, KernelSame
<1> QED BY <1>2, <1>3

\* A flip is shown.
LEMMA FlipDoneFacts ==
  ASSUME KernelOk, FlipDone, flip \in Info, flip \notin Armed
  PROVE  KernelAs(Armed \cup {flip})
<1>1. /\ requests \in Seq(Vblank) /\ fd \in Seq(Vblank) /\ Single(requests) /\ Single(fd)
      /\ Of(requests) \cap Of(fd) = {} /\ hw \in 0..MaxMsc /\ \A k \in 1..Len(fd) : fd[k].msc <= hw
      /\ hw' = hw /\ flip \notin Of(fd) /\ flip \notin Of(requests)
  BY DEF KernelOk, KernelOnce, FlipDone, Armed
<1> DEFINE x == [info |-> flip, msc |-> hw]
<1>2. x \in Vblank /\ x.info = flip /\ x.msc = hw BY <1>1, BoundsAssumption DEF Vblank, Msc
<1>3. fd' = Append(fd, x) /\ requests' = requests BY DEF FlipDone
<1> HIDE DEF x
<1>4. fd' \in Seq(Vblank) /\ Of(fd') = Of(fd) \cup {flip} /\ Single(fd')
  <2>1. /\ Append(fd, x) \in Seq(Vblank) /\ Of(Append(fd, x)) = Of(fd) \cup {x.info}
        /\ Single(Append(fd, x))
    BY <1>1, <1>2, AppendFacts
  <2> QED BY <1>2, <1>3, <2>1
<1>5. \A k \in 1..Len(fd') : fd'[k].msc <= hw
  <2>1. \A k \in 1..Len(fd') : fd'[k] = x \/ (k \in 1..Len(fd) /\ fd'[k] = fd[k])
    BY <1>1, <1>2, <1>3
  <2> QED BY <1>1, <1>2, <2>1
<1>6. Single(requests') /\ Of(requests') = Of(requests) BY <1>1, <1>3
<1>7. KernelOnce' BY <1>1, <1>4, <1>6 DEF KernelOnce
<1>8. Armed' = Armed \cup {flip} BY <1>4, <1>6 DEF Armed
<1> QED BY <1>1, <1>3, <1>4, <1>5, <1>7, <1>8 DEF KernelAs

-----------------------------------------------------------------------------
(* The infos.                                                                *)

InfoRec == [target : Msc, events : Seq(Event), queued : BOOLEAN, marked : BOOLEAN]
InfosOk(f) == DOMAIN f \subseteq Info /\ \A i \in DOMAIN f : f[i] \in InfoRec

\* g has some of the infos of f, with their frames and events.
Within(g, f) ==
  /\ DOMAIN g \subseteq DOMAIN f
  /\ \A i \in DOMAIN g : g[i].target = f[i].target /\ g[i].events = f[i].events

\* info_alloc
LEMMA WithFacts ==
  ASSUME NEW f, InfosOk(f), NEW i \in Info, NEW r \in InfoRec
  PROVE  /\ InfosOk(With(f, i, r)) /\ DOMAIN With(f, i, r) = DOMAIN f \cup {i}
         /\ With(f, i, r)[i] = r
         /\ \A j \in DOMAIN f : j # i => With(f, i, r)[j] = f[j]
<1> DEFINE g == With(f, i, r)
<1>1. DOMAIN g = DOMAIN f \cup {i} /\ \A j \in DOMAIN g : g[j] = IF j = i THEN r ELSE f[j]
  BY DEF With
<1> HIDE DEF g
<1>2. InfosOk(g) BY <1>1 DEF InfosOk
<1> QED BY <1>1, <1>2 DEF g

\* info_free
LEMMA FreedFacts ==
  ASSUME NEW f, InfosOk(f), NEW i
  PROVE  /\ InfosOk(Freed(f, i)) /\ DOMAIN Freed(f, i) = DOMAIN f \ {i} /\ Within(Freed(f, i), f)
         /\ \A j \in DOMAIN f \ {i} : Freed(f, i)[j] = f[j]
<1> DEFINE g == Freed(f, i)
<1>1. DOMAIN g = DOMAIN f \ {i} /\ \A j \in DOMAIN g : g[j] = f[j] BY DEF Freed
<1> HIDE DEF g
<1>2. InfosOk(g) BY <1>1 DEF InfosOk
<1> QED BY <1>1, <1>2 DEF g, Within

\* It is what a step does.
LEMMA FreedStep ==
  ASSUME NEW f, InfosOk(f), NEW i, info' = Freed(f, i)
  PROVE  /\ InfosOk(info') /\ DOMAIN info' = DOMAIN f \ {i} /\ Within(info', f)
         /\ \A j \in DOMAIN f \ {i} : info'[j] = f[j]
<1> DEFINE w == Freed(f, i)
<1>1. /\ InfosOk(w) /\ DOMAIN w = DOMAIN f \ {i} /\ Within(w, f)
      /\ \A j \in DOMAIN f \ {i} : w[j] = f[j]
  BY FreedFacts
<1>2. info' = w OBVIOUS
<1> HIDE DEF w
<1>3. InfosOk(info') BY <1>1, <1>2
<1>4. Within(info', f) BY <1>1, <1>2
<1> QED BY <1>1, <1>2, <1>3, <1>4

\* sna_present_queue: info->queued = true
LEMMA WrittenFacts ==
  ASSUME NEW f, InfosOk(f), NEW w
  PROVE  /\ InfosOk(Written(f, w)) /\ DOMAIN Written(f, w) = DOMAIN f /\ Within(Written(f, w), f)
         /\ \A j \in DOMAIN f : /\ Written(f, w)[j].marked = f[j].marked
                                /\ Written(f, w)[j].queued <=> f[j].queued \/ j \in w
<1> DEFINE g == Written(f, w)
<1>1. DOMAIN g = DOMAIN f /\ \A j \in DOMAIN f : g[j] = [f[j] EXCEPT !.queued = @ \/ j \in w]
  BY DEF Written
<1>2. ASSUME NEW j \in DOMAIN f
      PROVE  /\ g[j] \in InfoRec /\ g[j].target = f[j].target /\ g[j].events = f[j].events
             /\ g[j].marked = f[j].marked /\ g[j].queued = (f[j].queued \/ j \in w)
  <2>1. f[j] \in InfoRec BY DEF InfosOk
  <2>2. g[j] = [f[j] EXCEPT !.queued = f[j].queued \/ j \in w] BY <1>1
  <2> HIDE DEF g
  <2>3. (f[j].queued \/ j \in w) \in BOOLEAN OBVIOUS
  <2> DEFINE x == (f[j].queued \/ j \in w)
  <2>4. x \in BOOLEAN /\ g[j] = [f[j] EXCEPT !.queued = x] BY <2>2, <2>3
  <2> HIDE DEF x
  <2>5. /\ g[j] \in InfoRec /\ g[j].target = f[j].target /\ g[j].events = f[j].events
        /\ g[j].marked = f[j].marked /\ g[j].queued = x
    BY <2>1, <2>4 DEF InfoRec
  <2> QED BY <2>5 DEF x
<1> HIDE DEF g
<1>3. \A j \in DOMAIN f : g[j].queued <=> f[j].queued \/ j \in w
  <2>1. ASSUME NEW j \in DOMAIN f PROVE g[j].queued <=> f[j].queued \/ j \in w
    BY <1>2
  <2> QED BY <2>1
<1>4. InfosOk(g) BY <1>1, <1>2 DEF InfosOk
<1>5. Within(g, f) BY <1>1, <1>2 DEF Within
<1> QED BY <1>1, <1>2, <1>3, <1>4, <1>5 DEF g

\* The mark is taken off an info.
LEMMA MarkFacts ==
  ASSUME InfosOk(info), NEW i \in DOMAIN info, info' = [info EXCEPT ![i].marked = FALSE]
  PROVE  /\ InfosOk(info') /\ DOMAIN info' = DOMAIN info /\ Within(info', info)
         /\ \A j \in DOMAIN info : /\ info'[j].marked <=> j # i /\ info[j].marked
                                   /\ info'[j].queued <=> info[j].queued
<1> DEFINE f == info
           g == info'
<1>1. DOMAIN g = DOMAIN f /\ \A j \in DOMAIN f : g[j] = IF j = i THEN [f[i] EXCEPT !.marked = FALSE] ELSE f[j]
  OBVIOUS
<1>2. ASSUME NEW j \in DOMAIN f
      PROVE  /\ g[j] \in InfoRec /\ g[j].target = f[j].target /\ g[j].events = f[j].events
             /\ g[j].marked <=> j # i /\ f[j].marked
             /\ g[j].queued <=> f[j].queued
  <2>1. f[j] \in InfoRec /\ f[i] \in InfoRec BY DEF InfosOk
  <2>2. CASE j = i
    <3>1. g[j] = [f[j] EXCEPT !.marked = FALSE] BY <1>1, <2>2
    <3> QED BY <2>1, <2>2, <3>1 DEF InfoRec
  <2>3. CASE j # i
    <3>1. g[j] = f[j] BY <1>1, <2>3
    <3> QED BY <2>1, <2>3, <3>1
  <2> QED BY <2>2, <2>3
<1> HIDE DEF f, g
<1>3. InfosOk(g)
  <2>1. InfosOk(f) BY DEF f
  <2> QED BY <1>1, <1>2, <2>1 DEF InfosOk
<1>4. Within(g, f) BY <1>1, <1>2 DEF Within
<1> QED BY <1>1, <1>2, <1>3, <1>4 DEF f, g

\* add_to_crtc_vblank
LEMMA CrtcFacts ==
  ASSUME NEW f, InfosOk(f), NEW i \in DOMAIN f, NEW d, AddToCrtc(i, d, f)
  PROVE  /\ InfosOk(info') /\ DOMAIN info' = DOMAIN f /\ Within(info', f)
         /\ info'[i].marked <=> d = 1
         /\ \A j \in DOMAIN f : /\ j # i => (info'[j].marked <=> f[j].marked)
                                /\ info'[j].queued <=> j = i \/ f[j].queued
         /\ vblanks' = vblanks + (IF d = 1 THEN 1 ELSE 0)
<1> DEFINE b == (d = 1)
           g == [f EXCEPT ![i].queued = TRUE, ![i].marked = b]
<1>0. info' = g /\ vblanks' = vblanks + (IF d = 1 THEN 1 ELSE 0) BY DEF AddToCrtc
<1>b. b \in BOOLEAN OBVIOUS
<1> HIDE DEF b
<1>1. DOMAIN g = DOMAIN f /\ \A j \in DOMAIN f : g[j] =
        IF j = i THEN [f[i] EXCEPT !.queued = TRUE, !.marked = b] ELSE f[j]
  OBVIOUS
<1> HIDE DEF g
<1>2. ASSUME NEW j \in DOMAIN f
      PROVE  /\ g[j] \in InfoRec /\ g[j].target = f[j].target /\ g[j].events = f[j].events
             /\ j # i => (g[j].marked <=> f[j].marked)
             /\ j = i => g[j].marked = b
             /\ g[j].queued <=> j = i \/ f[j].queued
  <2>1. f[j] \in InfoRec /\ f[i] \in InfoRec BY DEF InfosOk
  <2>2. CASE j = i
    <3>1. g[j] = [f[j] EXCEPT !.queued = TRUE, !.marked = b] BY <1>1, <2>2
    <3> QED BY <1>b, <2>1, <2>2, <3>1 DEF InfoRec
  <2>3. CASE j # i
    <3>1. g[j] = f[j] BY <1>1, <2>3
    <3> QED BY <2>1, <2>3, <3>1
  <2> QED BY <2>2, <2>3
<1>3. InfosOk(g) BY <1>1, <1>2 DEF InfosOk
<1>4. Within(g, f) BY <1>1, <1>2 DEF Within
<1>5. info'[i].marked <=> d = 1
  <2>1. info'[i].marked = b BY <1>0, <1>2
  <2> QED BY <2>1 DEF b
<1>6. \A j \in DOMAIN f : /\ j # i => (info'[j].marked <=> f[j].marked)
                          /\ info'[j].queued <=> j = i \/ f[j].queued
  BY <1>0, <1>2
<1> QED BY <1>0, <1>1, <1>3, <1>4, <1>5, <1>6

\* What is inside of what is inside.
LEMMA WithinTwice ==
  ASSUME NEW f, NEW g, NEW h, Within(g, f), Within(h, g) PROVE Within(h, f)
BY DEF Within

-----------------------------------------------------------------------------
(* The events of the extension.                                              *)

HistoryOk ==
  /\ asked \in [Event -> Msc \cup {None}]
  /\ told \in [Event -> Seq({"early", "due", "ahead"})]
  /\ given \in 0..Events /\ History

\* A step is one of SnaVblank, or none of it.
Promised == Contract!Next \/ UNCHANGED history

\* None is no frame.
LEMMA NoneIsNone ==
  None \notin Msc /\ None \notin Nat /\ Contract!None = None /\ \A m \in Msc : m \in Nat /\ m \in Int
BY BoundsAssumption DEF None, Msc, Contract!None

\* present_event_notify, of an event that waits for a frame which has been shown:
\* it is told in time and never again.
LEMMA NotifyFacts ==
  ASSUME HistoryOk, NEW e \in Event, NEW m \in Int, hw \in Int,
         asked[e] \in Msc, asked[e] <= m, on => m <= hw + 1,
         Notify(e, m), given' = given
  PROVE  /\ HistoryOk' /\ Promised /\ asked' = [asked EXCEPT ![e] = None]
         /\ e <= given
<1> DEFINE t == asked[e]
<1>1. t \in Int /\ t # None /\ None \in Int BY NoneIsNone DEF None
<1>2. told[e] = <<>> /\ e <= given
  <2>1. e \in Int /\ given \in Int BY BoundsAssumption DEF Event, HistoryOk
  <2>2. told[e] = <<>> BY <1>1 DEF HistoryOk, History
  <2>3. ~ (e > given) BY <1>1 DEF HistoryOk, History
  <2> QED BY <2>1, <2>2, <2>3
<1>3. Judged(m, t) = "due"
  <2>1. ~ (m < t) BY <1>1
  <2>2. ~ (on /\ m > hw + 1) OBVIOUS
  <2> HIDE DEF t
  <2> QED BY <2>1, <2>2 DEF Judged
<1>4. asked' = [asked EXCEPT ![e] = None] BY DEF Notify
<1>5. told' = [told EXCEPT ![e] = <<"due">>]
  <2>1. told' = [told EXCEPT ![e] = Append(told[e], Judged(m, t))] BY DEF Notify
  <2> HIDE DEF t
  <2>2. Append(told[e], Judged(m, t)) = <<"due">> BY <1>2, <1>3
  <2> QED BY <2>1, <2>2
<1>6. asked' \in [Event -> Msc \cup {None}] BY <1>4 DEF HistoryOk
<1>7. told' \in [Event -> Seq({"early", "due", "ahead"})]
  <2>1. <<"due">> \in Seq({"early", "due", "ahead"}) OBVIOUS
  <2> QED BY <1>5, <2>1 DEF HistoryOk
<1>8. History'
  <2>1. ASSUME NEW d \in Event
        PROVE  /\ asked'[d] = IF d = e THEN None ELSE asked[d]
               /\ d # e => told'[d] = told[d]
    BY <1>4, <1>5 DEF HistoryOk
  <2>2. ASSUME NEW d \in Event, d > given PROVE d # e
    <3>1. d \in Int /\ given \in Int /\ e \in Int BY BoundsAssumption DEF Event, HistoryOk
    <3> QED BY <1>2, <2>2, <3>1
  <2> QED BY <2>1, <2>2 DEF HistoryOk, History
<1>9. Contract!Next
  <2>1. Contract!Answer(e) BY <1>1, <1>4, <1>5, NoneIsNone DEF Contract!Answer
  <2> QED BY <2>1 DEF Contract!Next
<1>10. HistoryOk' BY <1>6, <1>7, <1>8 DEF HistoryOk
<1>11. Promised BY <1>9 DEF Promised
<1> QED BY <1>2, <1>4, <1>10, <1>11

\* A new event waits for a frame.
LEMMA AsksFacts ==
  ASSUME HistoryOk, NEW e \in Event, NEW m \in Msc, Gives(e), Asks(e, m)
  PROVE  /\ HistoryOk' /\ Promised /\ asked' = [asked EXCEPT ![e] = m]
         /\ given' = e /\ e = given + 1
<1>1. /\ e = given + 1 /\ given' = e /\ asked' = [asked EXCEPT ![e] = m] /\ told' = told
      /\ given \in Int
  BY DEF Gives, Asks, HistoryOk
<1>2. asked[e] = None /\ told[e] = <<>>
  <2>1. e > given BY <1>1
  <2> QED BY <2>1 DEF HistoryOk, History
<1>3. asked' \in [Event -> Msc \cup {None}] BY <1>1 DEF HistoryOk
<1>4. asked'[e] = m BY <1>1 DEF HistoryOk
<1>5. History'
  <2>1. ASSUME NEW d \in Event PROVE asked'[d] = IF d = e THEN m ELSE asked[d]
    BY <1>1 DEF HistoryOk
  <2>2. ASSUME NEW d \in Event, d > given' PROVE d # e /\ d > given
    <3>1. d \in Int BY DEF Event
    <3> QED BY <1>1, <2>2, <3>1
  <2> QED BY <1>1, <1>2, <2>1, <2>2 DEF HistoryOk, History
<1>6. Contract!Next
  <2>1. asked'[e] \in Nat BY <1>4, NoneIsNone
  <2>2. Contract!Give(e) BY <1>1, <1>2, <1>4, <2>1, NoneIsNone DEF Contract!Give
  <2> QED BY <2>2 DEF Contract!Next
<1>7. given' \in 0..Events BY <1>1, BoundsAssumption DEF Event
<1>8. HistoryOk' BY <1>1, <1>3, <1>5, <1>7 DEF HistoryOk
<1>9. Promised BY <1>6 DEF Promised
<1> QED BY <1>1, <1>8, <1>9

\* A new event is told at once.
LEMMA AnsweredFacts ==
  ASSUME HistoryOk, NEW e \in Event, NEW m \in Msc, swap \in Int, hw \in Int,
         m <= swap, swap <= hw, Gives(e), Answered(e, m)
  PROVE  HistoryOk' /\ Promised /\ asked' = asked /\ given' = e /\ e = given + 1
<1>1. /\ e = given + 1 /\ given' = e /\ asked' = asked
      /\ told' = [told EXCEPT ![e] = <<Judged(swap, m)>>]
      /\ given \in Int
  BY DEF Gives, Answered, HistoryOk
<1>2. asked[e] = None /\ told[e] = <<>>
  <2>1. e > given BY <1>1
  <2> QED BY <2>1 DEF HistoryOk, History
<1>3. Judged(swap, m) = "due"
  <2>1. m \in Int BY NoneIsNone
  <2>2. ~ (swap < m) /\ ~ (swap > hw + 1) BY <2>1
  <2> QED BY <2>2 DEF Judged
<1>4. told' = [told EXCEPT ![e] = <<"due">>] BY <1>1, <1>3
<1>5. told' \in [Event -> Seq({"early", "due", "ahead"})]
  <2>1. <<"due">> \in Seq({"early", "due", "ahead"}) OBVIOUS
  <2> QED BY <1>4, <2>1 DEF HistoryOk
<1>6. History'
  <2>1. ASSUME NEW d \in Event, d # e PROVE told'[d] = told[d]
    BY <1>4, <2>1 DEF HistoryOk
  <2>2. ASSUME NEW d \in Event, d > given' PROVE d # e /\ d > given
    <3>1. d \in Int BY DEF Event
    <3> QED BY <1>1, <2>2, <3>1
  <2> QED BY <1>1, <1>2, <2>1, <2>2 DEF HistoryOk, History
<1>7. Contract!Next
  <2>1. Contract!AnswerAtOnce(e) BY <1>1, <1>2, <1>4, NoneIsNone DEF Contract!AnswerAtOnce
  <2> QED BY <2>1 DEF Contract!Next
<1>8. given' \in 0..Events BY <1>1, BoundsAssumption DEF Event
<1>9. HistoryOk' BY <1>1, <1>5, <1>6, <1>8 DEF HistoryOk
<1>10. Promised BY <1>7 DEF Promised
<1> QED BY <1>1, <1>9, <1>10

\* Nothing is asked or told.
LEMMA NothingTold ==
  ASSUME HistoryOk, UNCHANGED <<asked, told, given>> PROVE HistoryOk' /\ Promised
BY DEF HistoryOk, History, Promised, history

\* The events of infos that are freed, or of which more are done.
LEMMA WithinEvents ==
  ASSUME NEW f, NEW g, Within(g, f), NEW u, NEW n, NEW a, NEW b, NEW c, NEW Q, NEW R,
         Events1(f, u), Pending(f, b, a), Past(f, n), FlipsOk(f, Q),
         DOMAIN g \ R \subseteq DOMAIN f \ Q,
         \A i \in DOMAIN g : \A k \in 1..Len(g[i].events) : Done(b, i, k) => Done(c, i, k)
  PROVE  Events1(g, u) /\ Pending(g, c, a) /\ Past(g, n) /\ FlipsOk(g, R)
<1>1. \A i \in DOMAIN g : i \in DOMAIN f /\ g[i].target = f[i].target /\ g[i].events = f[i].events
  BY DEF Within
<1>2. Events1(g, u) BY <1>1 DEF Events1
<1>3. Pending(g, c, a) BY <1>1 DEF Pending
<1>4. Past(g, n) BY <1>1 DEF Past
<1>5. FlipsOk(g, R) BY <1>1 DEF FlipsOk
<1> QED BY <1>2, <1>3, <1>4, <1>5

\* One of them is told.
LEMMA TellEvents ==
  ASSUME NEW f, NEW u, NEW a \in [Event -> Msc \cup {None}], NEW b, NEW c,
         Events1(f, u), Pending(f, b, a),
         NEW i \in DOMAIN f, NEW k \in 1..Len(f[i].events),
         \A j \in DOMAIN f : f[j].events \in Seq(Event),
         \A j \in DOMAIN f : \A l \in 1..Len(f[j].events) :
           Done(b, j, l) \/ (j = i /\ l = k) => Done(c, j, l)
  PROVE  Pending(f, c, [a EXCEPT ![f[i].events[k]] = None])
<1> DEFINE x == f[i].events[k]
           d == [a EXCEPT ![x] = None]
<1>1. SUFFICES ASSUME NEW j \in DOMAIN f, NEW l \in 1..Len(f[j].events), ~ Done(c, j, l)
               PROVE  d[f[j].events[l]] = f[j].target
  BY DEF Pending
<1>2. ~ (j = i /\ l = k) /\ ~ Done(b, j, l) BY <1>1
<1>3. a[f[j].events[l]] = f[j].target BY <1>2 DEF Pending
<1>4. f[j].events[l] # x BY <1>2 DEF Events1
<1>5. f[j].events[l] \in Event OBVIOUS
<1> QED BY <1>3, <1>4, <1>5

\* A new event is asked for elsewhere, so nothing changes.
LEMMA AskElsewhere ==
  ASSUME NEW f, NEW a \in [Event -> Msc \cup {None}], NEW b, NEW n \in Int, NEW e, NEW m,
         Pending(f, b, a), Past(f, n), e = n + 1,
         \A j \in DOMAIN f : f[j].events \in Seq(Event)
  PROVE  /\ Pending(f, b, [a EXCEPT ![e] = m]) /\ Past(f, e)
         /\ \A j \in DOMAIN f : \A l \in 1..Len(f[j].events) : f[j].events[l] # e
<1> DEFINE d == [a EXCEPT ![e] = m]
<1>0. ASSUME NEW j \in DOMAIN f, NEW l \in 1..Len(f[j].events)
      PROVE  f[j].events[l] # e /\ f[j].events[l] \in Event /\ f[j].events[l] <= e
  <2>1. f[j].events[l] \in Event /\ f[j].events[l] <= n BY DEF Past
  <2> QED BY <2>1 DEF Event
<1>1. Pending(f, b, d)
  <2>1. SUFFICES ASSUME NEW j \in DOMAIN f, NEW l \in 1..Len(f[j].events), ~ Done(b, j, l)
                 PROVE  d[f[j].events[l]] = f[j].target
    BY DEF Pending
  <2>2. a[f[j].events[l]] = f[j].target BY <2>1 DEF Pending
  <2> QED BY <1>0, <2>2
<1>2. ASSUME NEW j \in DOMAIN f PROVE Len(f[j].events) <= e
  <2>1. Len(f[j].events) <= n /\ Len(f[j].events) \in Nat BY DEF Past
  <2> QED BY <2>1
<1>3. Past(f, e) BY <1>0, <1>2 DEF Past
<1> QED BY <1>0, <1>1, <1>3

-----------------------------------------------------------------------------
(* The invariant, taken apart and put together.                              *)

\* What is known before a step.
LEMMA Known ==
  ASSUME IInv
  PROVE  /\ KernelOk /\ HistoryOk
         /\ on \in BOOLEAN /\ flipping \in BOOLEAN /\ shown \in BOOLEAN
         /\ hw \in 0..MaxMsc /\ hw \in Int /\ hw \in Msc /\ hw + 1 \in Msc
         /\ swap \in Msc /\ swap \in Int /\ 0 <= swap /\ swap <= hw
         /\ InfosOk(info) /\ queue \in Seq(DOMAIN info) /\ timers \subseteq Info
         /\ flip \in 0..Infos /\ unflip \in 0..Events /\ given \in 0..Events /\ given \in Int
         /\ stack \in Seq(Frame) /\ Shape
         /\ Places /\ vblanks = Cardinality(Marked) /\ Sorted(queue, info) /\ Numbers
         /\ EventsOk /\ Unflipped
<1>1. TypeOK /\ Shape /\ KernelOnce /\ Places /\ vblanks = Cardinality(Marked)
      /\ Sorted(queue, info) /\ Numbers /\ EventsOk /\ Unflipped /\ History
  BY DEF IInv
<1>2. HistoryOk BY <1>1 DEF TypeOK, HistoryOk
<1>3. InfosOk(info) BY <1>1 DEF TypeOK, InfosOk, InfoRec
<1>4. /\ on \in BOOLEAN /\ flipping \in BOOLEAN /\ shown \in BOOLEAN
      /\ hw \in 0..MaxMsc /\ swap \in Msc /\ queue \in Seq(DOMAIN info) /\ timers \subseteq Info
      /\ flip \in 0..Infos /\ unflip \in 0..Events /\ given \in 0..Events
      /\ stack \in Seq(Frame) /\ requests \in Seq(Vblank) /\ fd \in Seq(Vblank)
  BY <1>1 DEF TypeOK
<1>5. KernelOk BY <1>1, <1>4 DEF KernelOk, Numbers
<1>6. hw \in Int /\ hw \in Msc /\ hw + 1 \in Msc /\ swap \in Int /\ 0 <= swap /\ given \in Int
  BY <1>4, BoundsAssumption DEF Msc
<1>7. swap <= hw BY <1>1 DEF Numbers
<1> QED BY <1>1, <1>2, <1>3, <1>4, <1>5, <1>6, <1>7

\* What has to be shown of a step.
LEMMA Together ==
  ASSUME on' \in BOOLEAN, flipping' \in BOOLEAN, shown' \in BOOLEAN,
         hw' \in 0..MaxMsc, swap' \in Msc, swap' <= hw',
         NEW A, KernelAs(A), HistoryOk', InfosOk(info'), queue' \in Seq(DOMAIN info'),
         timers' \subseteq Info, flip' \in 0..Infos, unflip' \in 0..Events,
         stack' \in Seq(Frame), Shape',
         Sane(A, timers', Base', Listed', DOMAIN info', Marked', Waiting', First', flip', flipping'),
         vblanks' = Cardinality(Marked'), Sorted(queue', info'),
         Base'.at = "complete" /\ on' => Base'.msc <= hw' + 1,
         Base'.at = "flip" => Base'.msc <= hw',
         EventsOk', Unflipped'
  PROVE  IInv'
<1>1. KernelOnce' /\ Armed' = A /\ requests' \in Seq(Vblank) /\ fd' \in Seq(Vblank)
      /\ \A k \in 1..Len(fd') : fd'[k].msc <= hw'
  BY DEF KernelAs
<1>2. Numbers' BY <1>1 DEF Numbers
<1>3. Places' BY <1>1 DEF Places
<1>4. vblanks' \in Nat
  <2>1. IsFiniteSet(Info) BY BoundsAssumption, FS_Interval DEF Info
  <2>2. Marked' \subseteq Info BY DEF InfosOk, Marked
  <2>3. IsFiniteSet(Marked') BY <2>1, <2>2, FS_Subset
  <2> QED BY <2>3, FS_CardinalityType
<1>5. TypeOK'
  <2>1. DOMAIN info' \subseteq Info /\ \A i \in DOMAIN info' :
          info'[i] \in [target : Msc, events : Seq(Event), queued : BOOLEAN, marked : BOOLEAN]
    BY DEF InfosOk, InfoRec
  <2>2. /\ asked' \in [Event -> Msc \cup {None}]
        /\ told' \in [Event -> Seq({"early", "due", "ahead"})] /\ given' \in 0..Events
    BY DEF HistoryOk
  <2> QED BY <1>1, <1>4, <2>1, <2>2 DEF TypeOK
<1>6. History' BY DEF HistoryOk
<1> QED BY <1>1, <1>2, <1>3, <1>5, <1>6 DEF IInv

\* A count goes up by one, or down.
LEMMA CountFacts ==
  ASSUME InfosOk(info), NEW i \in Info
  PROVE  /\ i \notin Marked => Cardinality(Marked \cup {i}) = Cardinality(Marked) + 1
         /\ i \in Marked => Cardinality(Marked \ {i}) = Cardinality(Marked) - 1
         /\ Cardinality(Marked) \in Nat
<1>1. IsFiniteSet(Info) BY BoundsAssumption, FS_Interval DEF Info
<1>2. Marked \subseteq Info BY DEF InfosOk, Marked
<1>3. IsFiniteSet(Marked) BY <1>1, <1>2, FS_Subset
<1>4. Cardinality(Marked) \in Nat BY <1>3, FS_CardinalityType
<1>5. i \notin Marked => Cardinality(Marked \cup {i}) = Cardinality(Marked) + 1
  BY <1>3, FS_AddElement
<1>6. i \in Marked => Cardinality(Marked \ {i}) = Cardinality(Marked) - 1
  BY <1>3, FS_RemoveElement
<1> QED BY <1>4, <1>5, <1>6

\* A sequence of elements that are also of another set.
LEMMA SeqIn ==
  ASSUME NEW S, NEW T, NEW q \in Seq(S), Members(q) \subseteq T PROVE q \in Seq(T)
<1>1. Len(q) \in Nat /\ q = [k \in 1..Len(q) |-> q[k]] /\ DOMAIN q = 1..Len(q) OBVIOUS
<1>2. \A k \in 1..Len(q) : q[k] \in T BY <1>1 DEF Members
<1> DEFINE n == Len(q)
<1> HIDE DEF n
<1>3. n \in Nat /\ q = [k \in 1..n |-> q[k]] /\ \A k \in 1..n : q[k] \in T BY <1>1, <1>2 DEF n
<1> QED BY <1>3

\* The lists are left alone.
LEMMA ListsSame ==
  ASSUME UNCHANGED <<info, queue>>
  PROVE  Listed' = Listed /\ Marked' = Marked /\ Waiting' = Waiting /\ First' = First
<1>1. info' = info /\ queue' = queue OBVIOUS
<1>2. Listed' = Listed BY <1>1 DEF Listed
<1>3. Marked' = Marked BY <1>1 DEF Marked
<1>4. Waiting' = Waiting BY <1>1, <1>2 DEF Waiting
<1>5. First' = First BY <1>1 DEF First
<1> QED BY <1>2, <1>3, <1>4, <1>5

\* Whom the X server works for.
LEMMA HeldFacts ==
  ASSUME NEW b
  PROVE  /\ Held(b, {"rearm", "complete"}) = IF b.at = "rearm" \/ b.at = "complete" THEN {b.info} ELSE {}
         /\ Held(b, {"flip", "flipend"}) = IF b.at = "flip" \/ b.at = "flipend" THEN {b.info} ELSE {}
         /\ Held(b, {"flip"}) = IF b.at = "flip" THEN {b.info} ELSE {}
         /\ Held(b, {"rearm"}) = IF b.at = "rearm" THEN {b.info} ELSE {}
         /\ Held(b, {"complete"}) = IF b.at = "complete" THEN {b.info} ELSE {}
BY DEF Held

\* With the queue or without it, nothing else is done.
LEMMA AsideSame ==
  ASSUME Aside, NEW A, NEW T, NEW Q, NEW D, NEW M, NEW W, NEW h, NEW f, NEW g
  PROVE  /\ Sane(A, T, Base', Q, D, M, W, h, f, g) <=> Sane(A, T, Base, Q, D, M, W, h, f, g)
         /\ Held(Base', {"rearm", "complete"}) = Held(Base, {"rearm", "complete"})
         /\ \A i, k : Done(Base', i, k) <=> Done(Base, i, k)
         /\ \A p : Progress(p, Base') <=> Progress(p, Base)
         /\ Base'.at = "complete" => Base'.msc = Base.msc /\ Base.at = "complete"
         /\ Base'.at \in {"flip", "flipend"} => Base'.msc = Base.msc /\ Base.at = Base'.at
         /\ Base'.at \in {"complete", "flip", "flipend"} => Base' = Base
<1>1. CASE Base' = Base BY <1>1
<1>2. CASE Base.at \in {"idle", "keepalive"} /\ Base'.at \in {"idle", "keepalive"}
  <2>1. /\ Held(Base', {"rearm", "complete"}) = {} /\ Held(Base, {"rearm", "complete"}) = {}
        /\ Held(Base', {"flip", "flipend"}) = {} /\ Held(Base, {"flip", "flipend"}) = {}
        /\ Held(Base', {"flip"}) = {} /\ Held(Base, {"flip"}) = {}
        /\ Held(Base', {"rearm"}) = {} /\ Held(Base, {"rearm"}) = {}
        /\ Held(Base', {"complete"}) = {} /\ Held(Base, {"complete"}) = {}
    BY <1>2, HeldFacts
  <2>2. Sane(A, T, Base', Q, D, M, W, h, f, g) <=> Sane(A, T, Base, Q, D, M, W, h, f, g)
    BY <2>1 DEF Sane, Placed, MarksOk, WaitsOk, HeadOk
  <2>3. \A i, k : Done(Base', i, k) <=> Done(Base, i, k) BY <1>2 DEF Done
  <2>4. \A p : Progress(p, Base') <=> Progress(p, Base) BY <1>2 DEF Progress
  <2> QED BY <1>2, <2>1, <2>2, <2>3, <2>4
<1> QED BY <1>1, <1>2 DEF Aside

\* No event is given or told.
LEMMA EventsStay ==
  ASSUME EventsOk, Within(info', info), UNCHANGED <<unflip, given, asked>>,
         DOMAIN info' \ Listed' \subseteq DOMAIN info \ Listed,
         \A i \in DOMAIN info' : \A k \in 1..Len(info'[i].events) :
           Done(Base, i, k) => Done(Base', i, k),
         Progress(info', Base')
  PROVE  EventsOk'
<1>1. Events1(info, unflip) /\ Pending(info, Base, asked) /\ Past(info, given)
      /\ FlipsOk(info, Listed)
  BY DEF EventsOk
<1>2. Events1(info', unflip) /\ Pending(info', Base', asked) /\ Past(info', given)
      /\ FlipsOk(info', Listed')
  BY <1>1, WithinEvents
<1>3. unflip' = unflip /\ asked' = asked /\ given' = given OBVIOUS
<1> QED BY <1>2, <1>3 DEF EventsOk

\* Nor an unflip asked for.
LEMMA UnflippedStay ==
  ASSUME Unflipped, UNCHANGED <<unflip, given, asked>>,
         unflip # 0 /\ Base'.at \in {"flip", "flipend"} => flip' = 0
  PROVE  Unflipped'
BY DEF Unflipped

\* Nothing is inside of itself.
LEMMA WithinSelf ==
  ASSUME NEW f PROVE Within(f, f)
BY DEF Within

-----------------------------------------------------------------------------
(* The kernel and the CRTC.                                                  *)

\* What each step shows.
Kept == IInv' /\ Promised /\ (Woken /\ Spared => Woken')

\* A step of the kernel, or of the CRTC, leaves the rest alone.
LEMMA KernelSteps ==
  ASSUME IInv, UNCHANGED <<swap, vblanks, lists, flip, unflip, stack, client, history>>,
         on' \in BOOLEAN, flipping' \in BOOLEAN, hw' \in 0..MaxMsc, hw <= hw',
         Base.at = "complete" /\ on' => on,
         NEW A, KernelAs(A), Armed \subseteq A,
         Sane(A, timers, Base, Listed, DOMAIN info, Marked, Waiting, First, flip, flipping')
  PROVE  Kept
<1>1. /\ UNCHANGED <<swap, vblanks, info, queue, timers, flip, unflip, stack, given, shown, asked, told>>
      /\ UNCHANGED <<info, queue>>
  BY DEF lists, client, history
<1>2. Base' = Base /\ Shape' BY <1>1, Known DEF Base, Shape
<1>3. Listed' = Listed /\ Marked' = Marked /\ Waiting' = Waiting /\ First' = First
  BY <1>1, ListsSame
<1>4. HistoryOk' /\ Promised BY <1>1, Known, NothingTold
<1>5. EventsOk'
  <2>1. Within(info', info) BY <1>1, WithinSelf
  <2>2. Progress(info', Base') BY <1>1, <1>2, Known DEF EventsOk
  <2> QED BY <1>1, <1>2, <1>3, <2>1, <2>2, Known, EventsStay
<1>6. Unflipped' BY <1>1, <1>2, Known DEF Unflipped
<1>7. Sorted(queue', info') BY <1>1, Known
<1>8. /\ Base'.at = "complete" /\ on' => Base'.msc <= hw' + 1
      /\ Base'.at = "flip" => Base'.msc <= hw'
  <2>1. Base.at \in {"complete", "flip"} => Base.msc \in Int
    <3>1. Base = At("idle", 0, 0) \/ Base \in Frame BY Known, StackFacts
    <3> QED BY <3>1, NoneIsNone DEF At, Frame
  <2>2. Base.at = "complete" /\ on => Base.msc <= hw + 1 BY Known DEF Numbers
  <2>3. Base.at = "flip" => Base.msc <= hw BY Known DEF Numbers
  <2>4. hw \in Int /\ hw' \in Int BY Known
  <2> QED BY <1>2, <2>1, <2>2, <2>3, <2>4
<1>9. swap' <= hw' BY <1>1, Known
<1>10. IInv'
  <2>1. Sane(A, timers', Base', Listed', DOMAIN info', Marked', Waiting', First', flip', flipping')
    BY <1>1, <1>2, <1>3
  <2>2. vblanks' = Cardinality(Marked') BY <1>1, <1>3, Known
  <2>3. /\ shown' \in BOOLEAN /\ swap' \in Msc /\ InfosOk(info') /\ queue' \in Seq(DOMAIN info')
        /\ timers' \subseteq Info /\ flip' \in 0..Infos /\ unflip' \in 0..Events /\ stack' \in Seq(Frame)
    BY <1>1, Known
  <2> QED BY <1>2, <1>4, <1>5, <1>6, <1>7, <1>8, <1>9, <2>1, <2>2, <2>3, Together
<1>11. Woken => Woken'
  <2>1. Armed' = A /\ timers' = timers BY <1>1 DEF KernelAs
  <2> QED BY <1>2, <1>3, <2>1 DEF Woken
<1> QED BY <1>4, <1>10, <1>11 DEF Kept

\* A frame.
LEMMA TickKept == ASSUME IInv, Tick PROVE Kept
<1>1. /\ UNCHANGED <<swap, vblanks, lists, flip, unflip, stack, client, history>>
      /\ on' = on /\ flipping' = flipping
  BY DEF Tick
<1>2. KernelAs(Armed) /\ hw' \in 0..MaxMsc /\ hw < hw' BY Known, TickFacts
<1>3. hw <= hw' BY <1>2, Known
<1>4. Sane(Armed, timers, Base, Listed, DOMAIN info, Marked, Waiting, First, flip, flipping')
  BY <1>1, Known DEF Places
<1>5. on' \in BOOLEAN /\ flipping' \in BOOLEAN BY <1>1, Known
<1> QED BY <1>1, <1>2, <1>3, <1>4, <1>5, KernelSteps

\* A flip is shown.
LEMMA FlipDoneKept == ASSUME IInv, FlipDone PROVE Kept
<1>1. /\ UNCHANGED <<swap, vblanks, lists, flip, unflip, stack, client, history>>
      /\ on' = on /\ flipping /\ flipping' = FALSE /\ hw' = hw
  BY DEF FlipDone
<1>2. Sane(Armed, timers, Base, Listed, DOMAIN info, Marked, Waiting, First, flip, flipping)
  BY Known DEF Places
<1>3. flip \in Info /\ flip \notin Armed
  BY <1>1, <1>2, Known, BoundsAssumption DEF Sane, Placed, Info
<1>4. KernelAs(Armed \cup {flip}) BY <1>3, Known, FlipDoneFacts
<1>5. Sane(Armed \cup {flip}, timers, Base, Listed, DOMAIN info, Marked, Waiting, First, flip, flipping')
  <2>1. flip # 0 /\ flip \notin Listed BY <1>1, <1>2 DEF Sane, Placed
  <2>2. Waiting \subseteq Listed BY DEF Waiting
  <2> QED BY <1>1, <1>2, <2>1, <2>2 DEF Sane, Placed, MarksOk, WaitsOk, HeadOk
<1>6. on' \in BOOLEAN /\ hw' \in 0..MaxMsc /\ hw <= hw' BY <1>1, Known
<1>7. flipping' \in BOOLEAN BY <1>1
<1> QED BY <1>1, <1>4, <1>5, <1>6, <1>7, KernelSteps

\* The CRTC is switched.
LEMMA SwitchKept == ASSUME IInv, SwitchCrtc PROVE Kept
<1>1. /\ UNCHANGED <<swap, vblanks, lists, flip, unflip, stack, client, history>>
      /\ on' = ~on /\ flipping' = flipping /\ hw' = hw /\ stack = <<>>
  BY DEF SwitchCrtc
<1>2. KernelAs(Armed) BY Known, SwitchFacts
<1>3. Base.at = "idle" BY <1>1 DEF Base, At
<1>4. Sane(Armed, timers, Base, Listed, DOMAIN info, Marked, Waiting, First, flip, flipping')
  BY <1>1, Known DEF Places
<1>5. on' \in BOOLEAN /\ flipping' \in BOOLEAN /\ hw' \in 0..MaxMsc /\ hw <= hw' BY <1>1, Known
<1> QED BY <1>1, <1>2, <1>3, <1>4, <1>5, KernelSteps

-----------------------------------------------------------------------------
(* DRM events, timers and what the X server does for them.                   *)

\* A step that gives no event and tells none.
LEMMA QuietSteps ==
  ASSUME IInv, UNCHANGED <<on, hw, unflip, client, history>>,
         flipping' \in BOOLEAN, swap' \in Msc, swap' <= hw,
         NEW A, KernelAs(A),
         InfosOk(info'), Within(info', info), queue' \in Seq(DOMAIN info'), Sorted(queue', info'),
         DOMAIN info' \ Listed' \subseteq DOMAIN info \ Listed,
         timers' \subseteq Info, flip' \in 0..Infos, stack' \in Seq(Frame), Shape',
         Sane(A, timers', Base', Listed', DOMAIN info', Marked', Waiting', First', flip', flipping'),
         vblanks' = Cardinality(Marked'),
         Base'.at = "complete" /\ on => Base'.msc <= hw + 1,
         Base'.at = "flip" => Base'.msc <= hw,
         \A i \in DOMAIN info' : \A k \in 1..Len(info'[i].events) :
           Done(Base, i, k) => Done(Base', i, k),
         Progress(info', Base'),
         unflip # 0 /\ Base'.at \in {"flip", "flipend"} => flip' = 0,
         Woken /\ Spared => Listed' \ Waiting' \subseteq A \cup timers' \cup Held(Base', {"rearm", "complete"})
  PROVE  Kept
<1>1. UNCHANGED <<given, shown, asked, told>> BY DEF client, history
<1>2. HistoryOk' /\ Promised BY <1>1, Known, NothingTold
<1>3. EventsOk' BY <1>1, Known, EventsStay
<1>4. Unflipped' BY <1>1, Known, UnflippedStay
<1>5. IInv'
  <2>1. on' = on /\ hw' = hw /\ unflip' = unflip /\ shown' = shown BY <1>1
  <2>2. on' \in BOOLEAN /\ shown' \in BOOLEAN /\ hw' \in 0..MaxMsc /\ swap' <= hw' /\ unflip' \in 0..Events
        /\ (Base'.at = "complete" /\ on' => Base'.msc <= hw' + 1)
        /\ (Base'.at = "flip" => Base'.msc <= hw')
    BY <2>1, Known
  <2> QED BY <1>2, <1>3, <1>4, <2>2, Together
<1>6. Woken /\ Spared => Woken' BY DEF Woken, KernelAs
<1> QED BY <1>2, <1>5, <1>6 DEF Kept

\* The frame of a function that is called.
LEMMA AtFacts ==
  ASSUME NEW p \in {"rearm", "complete", "keepalive", "flip", "flipend"},
         NEW i \in 0..Infos, NEW m \in Msc
  PROVE  /\ At(p, i, m) \in Frame /\ At(p, i, m).at = p /\ At(p, i, m).info = i
         /\ At(p, i, m).msc = m /\ At(p, i, m).n = 0 /\ At(p, i, m).wrote = {}
BY BoundsAssumption DEF At, Frame

\* A vblank event.
LEMMA VblankKept == ASSUME IInv, VblankEvent PROVE Kept
<1> DEFINE i == Head(fd).info
           m == Head(fd).msc
           b == At("complete", i, m)
           D == DOMAIN info
<1>1. /\ stack = <<>> /\ fd # <<>> /\ i # flip
      /\ vblanks' = vblanks - (IF info[i].marked THEN 1 ELSE 0)
      /\ info' = [info EXCEPT ![i].marked = FALSE]
      /\ Call(b) /\ swap' = m /\ fd' = Tail(fd)
      /\ UNCHANGED <<on, hw, requests, flipping, queue, timers, flip, unflip, client, history>>
  BY DEF VblankEvent
<1>2. KernelAs(Armed \ {i}) /\ Head(fd) \in Vblank /\ i \in Armed /\ m <= hw
  BY <1>1, Known, ReadFacts
<1>3. i \in Info /\ m \in Msc BY <1>2 DEF Vblank
<1>4. Sane(Armed, timers, Base, Listed, D, Marked, Waiting, First, flip, flipping)
  BY Known DEF Places
<1>5. i \in Listed /\ i \in D BY <1>1, <1>2, <1>4 DEF Sane, Placed
<1> HIDE DEF i, m, b, D
<1>6. b \in Frame /\ b.at = "complete" /\ b.info = i /\ b.msc = m /\ b.n = 0
  BY <1>3, AtFacts DEF b, Info
<1>7. stack' \in Seq(Frame) /\ Shape' /\ Base' = b BY <1>1, <1>3, <1>6, CallFacts
<1>8. Base.at = "idle" BY <1>1 DEF Base, At
<1>9. /\ InfosOk(info') /\ DOMAIN info' = D /\ Within(info', info)
      /\ \A j \in D : /\ info'[j].marked <=> j # i /\ info[j].marked
                      /\ info'[j].queued <=> info[j].queued
  <2>1. InfosOk(info) /\ i \in DOMAIN info BY <1>5, Known DEF D
  <2>2. info' = [info EXCEPT ![i].marked = FALSE] BY <1>1
  <2> QED BY <2>1, <2>2, MarkFacts DEF D
<1>10. queue' = queue /\ Listed' = Listed /\ First' = First BY <1>1 DEF Listed, First
<1>11. Marked' = Marked \ {i} BY <1>9 DEF Marked, D
<1>12. Listed \subseteq D BY <1>4 DEF Sane, Placed
<1>13. Waiting' = Waiting BY <1>9, <1>10, <1>12 DEF Waiting
<1>14. vblanks' = Cardinality(Marked')
  <2>1. info[i].marked <=> i \in Marked BY <1>5 DEF Marked, D
  <2>2. vblanks = Cardinality(Marked) BY Known
  <2>3. i \notin Marked => Marked \ {i} = Marked OBVIOUS
  <2>4. Cardinality(Marked) \in Nat BY <1>3, Known, CountFacts
  <2>5. CASE i \in Marked
    <3>1. vblanks' = vblanks - 1 BY <1>1, <2>1, <2>5
    <3>2. Cardinality(Marked \ {i}) = Cardinality(Marked) - 1 BY <1>3, <2>5, Known, CountFacts
    <3> QED BY <1>11, <2>2, <3>1, <3>2
  <2>6. CASE i \notin Marked
    <3>1. vblanks' = vblanks - 0 BY <1>1, <2>1, <2>6
    <3> QED BY <1>11, <2>2, <2>3, <2>4, <2>6, <3>1
  <2> QED BY <2>5, <2>6
<1>15. Sane(Armed \ {i}, timers', Base', Listed', DOMAIN info', Marked', Waiting', First', flip', flipping')
  <2>1. Sane(Armed \ {i}, timers, b, Listed, D, Marked \ {i}, Waiting, First, flip, flipping)
    BY <1>1, <1>2, <1>4, <1>5, <1>6, <1>8, HeldFacts, ZenonT(60) DEF Sane, Placed, MarksOk, WaitsOk, HeadOk
  <2> QED BY <1>1, <1>7, <1>9, <1>10, <1>11, <1>13, <2>1
<1>16. Woken => Listed' \ Waiting' \subseteq (Armed \ {i}) \cup timers' \cup Held(Base', {"rearm", "complete"})
  BY <1>1, <1>6, <1>7, <1>8, <1>10, <1>13, HeldFacts DEF Woken
<1>17. /\ \A j \in DOMAIN info' : \A k \in 1..Len(info'[j].events) :
            Done(Base, j, k) => Done(Base', j, k)
       /\ Progress(info', Base')
  <2>1. \A j, k : ~ Done(Base, j, k) BY <1>8 DEF Done
  <2>2. info'[i] \in InfoRec BY <1>5, <1>9 DEF InfosOk
  <2>3. Len(info'[i].events) \in Nat BY <2>2 DEF InfoRec
  <2>4. Progress(info', Base') BY <1>6, <1>7, <2>3 DEF Progress
  <2> QED BY <2>1, <2>4
<1>18. queue' \in Seq(DOMAIN info') /\ Sorted(queue', info')
  <2>1. queue \in Seq(D) /\ Sorted(queue, info) BY Known DEF D
  <2>2. \A j \in D : info'[j].target = info[j].target BY <1>9 DEF Within
  <2>3. \A k \in 1..Len(queue) : queue[k] \in D BY <2>1
  <2> QED BY <1>9, <1>10, <2>1, <2>2, <2>3 DEF Sorted
<1>19. swap' \in Msc /\ swap' <= hw /\ Base'.msc <= hw /\ Base'.at = "complete"
       /\ (Base'.at = "complete" /\ on => Base'.msc <= hw + 1)
  <2>1. m \in Int /\ hw \in Int BY <1>3, Known, NoneIsNone
  <2> QED BY <1>1, <1>2, <1>3, <1>6, <1>7, <2>1
<1>20. flipping' \in BOOLEAN /\ timers' \subseteq Info /\ flip' \in 0..Infos BY <1>1, Known
<1>21. DOMAIN info' \ Listed' \subseteq DOMAIN info \ Listed BY <1>9, <1>10 DEF D
<1>22. UNCHANGED <<on, hw, unflip, client, history>> BY <1>1
<1> QED BY <1>2, <1>7, <1>9, <1>14, <1>15, <1>16, <1>17, <1>18, <1>19, <1>20, <1>21, <1>22, QuietSteps

\* The queue is left alone.
LEMMA QueueSame ==
  ASSUME queue \in Seq(DOMAIN info), Sorted(queue, info), queue' = queue,
         Within(info', info), Listed \subseteq DOMAIN info'
  PROVE  /\ queue' \in Seq(DOMAIN info') /\ Sorted(queue', info')
         /\ Listed' = Listed /\ First' = First
<1>1. queue' \in Seq(DOMAIN info') BY SeqIn DEF Listed
<1>2. \A j \in DOMAIN info' : info'[j].target = info[j].target BY DEF Within
<1>3. \A k \in 1..Len(queue) : queue[k] \in DOMAIN info' BY <1>1
<1>4. Sorted(queue', info') BY <1>2, <1>3 DEF Sorted
<1>5. Listed' = Listed /\ First' = First BY DEF Listed, First
<1> QED BY <1>1, <1>4, <1>5

\* The event of a flip.
LEMMA FlipEventKept == ASSUME IInv, FlipEvent PROVE Kept
<1> DEFINE m == Head(fd).msc
           b == At("flip", flip, m)
           D == DOMAIN info
<1>1. /\ stack = <<>> /\ fd # <<>> /\ Head(fd).info = flip
      /\ Call(b) /\ swap' = m /\ fd' = Tail(fd) /\ flip' = 0
      /\ UNCHANGED <<on, hw, requests, flipping, vblanks, info, queue, timers, unflip, client, history>>
  BY DEF FlipEvent, lists
<1>2. KernelAs(Armed \ {flip}) /\ Head(fd) \in Vblank /\ flip \in Armed /\ m <= hw
  <2>1. KernelAs(Armed \ {Head(fd).info}) /\ Head(fd) \in Vblank /\ Head(fd).info \in Armed /\ m <= hw
    BY <1>1, Known, ReadFacts
  <2> QED BY <1>1, <2>1
<1>3. flip \in Info /\ m \in Msc /\ flip # 0
  <2>1. flip \in Info /\ m \in Msc BY <1>1, <1>2 DEF Vblank
  <2> QED BY <2>1, BoundsAssumption DEF Info
<1>4. Sane(Armed, timers, Base, Listed, D, Marked, Waiting, First, flip, flipping)
  BY Known DEF Places
<1> HIDE DEF m, b, D
<1>6. b \in Frame /\ b.at = "flip" /\ b.info = flip /\ b.msc = m /\ b.n = 0
  BY <1>3, AtFacts DEF b, Info
<1>7. stack' \in Seq(Frame) /\ Shape' /\ Base' = b BY <1>1, <1>3, <1>6, CallFacts
<1>8. Base.at = "idle" BY <1>1 DEF Base, At
<1>9. info' = info /\ queue' = queue /\ timers' = timers /\ flipping' = flipping /\ vblanks' = vblanks
  BY <1>1
<1>10. Listed' = Listed /\ Marked' = Marked /\ Waiting' = Waiting /\ First' = First
  BY <1>9, ListsSame
<1>11. Within(info', info) /\ InfosOk(info') /\ queue' \in Seq(DOMAIN info') /\ Sorted(queue', info')
  BY <1>9, Known, WithinSelf
<1>15. Sane(Armed \ {flip}, timers', Base', Listed', DOMAIN info', Marked', Waiting', First', flip', flipping')
  <2>1. Sane(Armed \ {flip}, timers, b, Listed, D, Marked, Waiting, First, 0, flipping)
    <3>1. /\ flip \in D \ Listed /\ ~flipping
          /\ Held(Base, {"rearm", "complete"}) = {} /\ Held(Base, {"flip", "flipend"}) = {}
          /\ Held(Base, {"flip"}) = {} /\ Held(Base, {"rearm"}) = {} /\ Held(Base, {"complete"}) = {}
      BY <1>2, <1>3, <1>4, <1>8, HeldFacts DEF Sane, Placed
    <3>2. /\ Held(b, {"rearm", "complete"}) = {} /\ Held(b, {"flip", "flipend"}) = {flip}
          /\ Held(b, {"flip"}) = {flip} /\ Held(b, {"rearm"}) = {} /\ Held(b, {"complete"}) = {}
      BY <1>6, HeldFacts
    <3>3. Listed \subseteq D /\ D \subseteq Info /\ 0 \notin Info
      BY <1>4, Known, BoundsAssumption DEF Sane, Placed, InfosOk, D, Info
    <3> QED BY <1>2, <1>3, <1>4, <3>1, <3>2, <3>3 DEF Sane, Placed, MarksOk, WaitsOk, HeadOk
  <2> QED BY <1>1, <1>7, <1>9, <1>10, <2>1 DEF D
<1>16. Woken => Listed' \ Waiting' \subseteq (Armed \ {flip}) \cup timers' \cup Held(Base', {"rearm", "complete"})
  <2>1. flip \notin Listed BY <1>3, <1>4 DEF Sane, Placed
  <2>2. Held(Base, {"rearm", "complete"}) = {} BY <1>8, HeldFacts
  <2> QED BY <1>9, <1>10, <2>1, <2>2 DEF Woken
<1>17. /\ \A j \in DOMAIN info' : \A k \in 1..Len(info'[j].events) :
            Done(Base, j, k) => Done(Base', j, k)
       /\ Progress(info', Base')
  BY <1>6, <1>7, <1>8 DEF Done, Progress
<1>19. swap' \in Msc /\ swap' <= hw /\ Base'.msc <= hw /\ Base'.at = "flip"
  BY <1>1, <1>2, <1>3, <1>6, <1>7
<1>20. flipping' \in BOOLEAN /\ timers' \subseteq Info BY <1>9, Known
<1>21. flip' \in 0..Infos BY <1>1, BoundsAssumption
<1>22. vblanks' = Cardinality(Marked') BY <1>9, <1>10, Known
<1>23. UNCHANGED <<on, hw, unflip, client, history>> BY <1>1
<1>24. DOMAIN info' \ Listed' \subseteq DOMAIN info \ Listed BY <1>9, <1>10
<1> QED BY <1>1, <1>2, <1>7, <1>11, <1>15, <1>16, <1>17, <1>19, <1>20, <1>21, <1>22, <1>23, <1>24, QuietSteps

\* A timer.
LEMMA TimerKept == ASSUME IInv, NEW i \in Info, TimerFires(i) PROVE Kept
<1> DEFINE p == IF on /\ hw < info[i].target THEN "rearm" ELSE "complete"
           m == IF on THEN hw ELSE info[i].target
           b == At(p, i, m)
<1>4. Sane(Armed, timers, Base, Listed, DOMAIN info, Marked, Waiting, First, flip, flipping)
  BY Known DEF Places
<1>1. /\ stack = <<>> /\ i \in timers /\ timers' = timers \ {i}
      /\ Call(b) /\ swap' = (IF on THEN hw ELSE swap)
      /\ UNCHANGED <<on, hw, requests, fd, flipping, vblanks, info, queue, flip, unflip, client, history>>
  <2>1. CASE on BY <2>1 DEF TimerFires, kernel
  <2>2. CASE ~on BY <2>2 DEF TimerFires, kernel
  <2> QED BY <2>1, <2>2
<1>2. i \in Listed /\ i \notin Armed /\ i \notin Waiting /\ i \in DOMAIN info
  BY <1>1, <1>4 DEF Sane, Placed, WaitsOk
<1>3. info[i].target \in Msc BY <1>2, Known DEF InfosOk, InfoRec
<1>5. m \in Msc /\ (on => m = hw) /\ p \in {"rearm", "complete"} BY <1>3, Known
<1> HIDE DEF p, m, b
<1>6. b \in Frame /\ b.at = p /\ b.info = i /\ b.msc = m /\ b.n = 0
  BY <1>5, AtFacts DEF b, Info
<1>7. stack' \in Seq(Frame) /\ Shape' /\ Base' = b BY <1>1, <1>5, <1>6, CallFacts
<1>8. Base.at = "idle" BY <1>1 DEF Base, At
<1>9. info' = info /\ queue' = queue /\ flipping' = flipping /\ vblanks' = vblanks /\ flip' = flip
      /\ UNCHANGED <<hw, requests, fd>>
  BY <1>1
<1>10. Listed' = Listed /\ Marked' = Marked /\ Waiting' = Waiting /\ First' = First
  BY <1>9, ListsSame
<1>11. Within(info', info) /\ InfosOk(info') /\ queue' \in Seq(DOMAIN info') /\ Sorted(queue', info')
  BY <1>9, Known, WithinSelf
<1>12. KernelAs(Armed) BY <1>9, Known, KernelSame
<1>13. /\ Held(Base, {"rearm", "complete"}) = {} /\ Held(Base, {"flip", "flipend"}) = {}
       /\ Held(Base, {"flip"}) = {} /\ Held(Base, {"rearm"}) = {} /\ Held(Base, {"complete"}) = {}
  BY <1>8, HeldFacts
<1>14. /\ Held(b, {"rearm", "complete"}) = {i} /\ Held(b, {"flip", "flipend"}) = {}
       /\ Held(b, {"flip"}) = {} /\ Held(b, {"rearm"}) \subseteq {i}
  BY <1>5, <1>6, HeldFacts
<1>15. Sane(Armed, timers', Base', Listed', DOMAIN info', Marked', Waiting', First', flip', flipping')
  <2>1. Sane(Armed, timers \ {i}, b, Listed, DOMAIN info, Marked, Waiting, First, flip, flipping)
    BY <1>1, <1>2, <1>4, <1>13, <1>14 DEF Sane, Placed, MarksOk, WaitsOk, HeadOk
  <2> QED BY <1>1, <1>7, <1>9, <1>10, <2>1
<1>16. Woken => Listed' \ Waiting' \subseteq Armed \cup timers' \cup Held(Base', {"rearm", "complete"})
  BY <1>1, <1>7, <1>10, <1>13, <1>14 DEF Woken
<1>17. /\ \A j \in DOMAIN info' : \A k \in 1..Len(info'[j].events) :
            Done(Base, j, k) => Done(Base', j, k)
       /\ Progress(info', Base')
  <2>1. \A j, k : ~ Done(Base, j, k) BY <1>8 DEF Done
  <2>2. Len(info'[i].events) \in Nat BY <1>2, <1>9, Known DEF InfosOk, InfoRec
  <2> QED BY <1>5, <1>6, <1>7, <2>1, <2>2 DEF Progress
<1>19. swap' \in Msc /\ swap' <= hw BY <1>1, Known
<1>20. flipping' \in BOOLEAN /\ timers' \subseteq Info /\ flip' \in 0..Infos BY <1>1, Known
<1>21. on => Base'.msc <= hw + 1 BY <1>5, <1>6, <1>7, Known
<1>22. vblanks' = Cardinality(Marked') BY <1>9, <1>10, Known
<1>23. UNCHANGED <<on, hw, unflip, client, history>> BY <1>1
<1>24. DOMAIN info' \ Listed' \subseteq DOMAIN info \ Listed BY <1>9, <1>10
<1>25. Base'.at # "flip" /\ Base'.at # "flipend" BY <1>5, <1>6, <1>7
<1> QED BY <1>7, <1>11, <1>12, <1>15, <1>16, <1>17, <1>19, <1>20, <1>21, <1>22, <1>23, <1>24, <1>25, QuietSteps

\* What is known while the X server is inside of sna_present.c.
LEMMA WorkFacts ==
  ASSUME IInv, top.at \in {"rearm", "complete", "flip", "flipend"}
  PROVE  /\ top = Base /\ top \in Frame /\ top.info \in Info /\ top.info \in DOMAIN info
         /\ Sane(Armed, timers, top, Listed, DOMAIN info, Marked, Waiting, First, flip, flipping)
         /\ info[top.info] \in InfoRec /\ info[top.info].target \in Msc /\ info[top.info].target \in Int
         /\ info[top.info].events \in Seq(Event)
         /\ top.msc \in Msc /\ top.msc \in Int /\ top.n \in Nat
<1>1. top = Base /\ top \in Frame /\ top.info \in Info BY Known, StackFacts
<1>2. Sane(Armed, timers, Base, Listed, DOMAIN info, Marked, Waiting, First, flip, flipping)
  BY Known DEF Places
<1>3. Sane(Armed, timers, top, Listed, DOMAIN info, Marked, Waiting, First, flip, flipping)
  BY <1>1, <1>2
<1>4. top.info \in Listed \cup DOMAIN info BY <1>3, HeldFacts DEF Sane, Placed
<1>5. top.info \in DOMAIN info BY <1>3, <1>4 DEF Sane, Placed
<1>6. info[top.info] \in InfoRec BY <1>5, Known DEF InfosOk
<1>7. info[top.info].target \in Msc /\ info[top.info].events \in Seq(Event) BY <1>6 DEF InfoRec
<1>8. top.msc \in Msc /\ top.n \in Nat BY <1>1, BoundsAssumption DEF Frame
<1> QED BY <1>1, <1>3, <1>5, <1>6, <1>7, <1>8, NoneIsNone

\* Too early: the kernel is asked again.
LEMMA RequeueKept == ASSUME IInv, CompleteRequeue PROVE Kept
<1> DEFINE i == top.info
           t == info[i].target
           d == t - top.msc
           w == Written(info, top.wrote)
           D == DOMAIN info
<1>1. /\ top.at = "complete" /\ top.msc < t /\ WaitVblank(i, t) /\ AddToCrtc(i, d, w) /\ Leave
      /\ UNCHANGED <<swap, queue, timers, flip, unflip, client, history>>
  BY DEF CompleteRequeue, Working
<1>2. /\ top = Base /\ i \in Info /\ i \in D /\ t \in Msc
      /\ Sane(Armed, timers, top, Listed, D, Marked, Waiting, First, flip, flipping)
  BY <1>1, WorkFacts
<1>3. stack' \in Seq(Frame) /\ Shape' /\ Base'.at = "idle" BY <1>1, Known, LeaveFacts
<1>4. i \in Listed /\ i \notin Armed /\ i \notin timers /\ Listed \subseteq D
  BY <1>1, <1>2, HeldFacts DEF Sane, Placed
<1>5. i # flip /\ i \notin Marked
  <2>1. i # 0 BY <1>2, BoundsAssumption DEF Info
  <2>2. i # flip BY <1>2, <1>4, <2>1 DEF Sane, Placed
  <2> QED BY <1>1, <1>2, <1>4, <2>2, HeldFacts DEF Sane, MarksOk
<1> HIDE DEF i, t, d, w, D
<1>6. KernelAs(Armed \cup {i}) /\ on /\ UNCHANGED <<on, hw, flipping>>
  BY <1>1, <1>2, <1>4, Known, WaitFacts
<1>7. /\ InfosOk(w) /\ DOMAIN w = D /\ Within(w, info)
      /\ \A j \in D : /\ w[j].marked = info[j].marked
                      /\ w[j].queued <=> info[j].queued \/ j \in top.wrote
  BY Known, WrittenFacts DEF w, D
<1>8. /\ InfosOk(info') /\ DOMAIN info' = D /\ Within(info', w)
      /\ info'[i].marked <=> d = 1
      /\ \A j \in D : /\ j # i => (info'[j].marked <=> w[j].marked)
                      /\ info'[j].queued <=> j = i \/ w[j].queued
      /\ vblanks' = vblanks + (IF d = 1 THEN 1 ELSE 0)
  BY <1>1, <1>2, <1>7, CrtcFacts
<1>9. Within(info', info) BY <1>7, <1>8, WithinTwice
<1>10. /\ queue' \in Seq(DOMAIN info') /\ Sorted(queue', info')
       /\ Listed' = Listed /\ First' = First
  BY <1>1, <1>4, <1>8, <1>9, Known, QueueSame
<1>11. Marked' = IF d = 1 THEN Marked \cup {i} ELSE Marked
  <2>1. Marked = {j \in D : info[j].marked} BY DEF Marked, D
  <2>2. Marked' = {j \in D : info'[j].marked} BY <1>8 DEF Marked
  <2>3. \A j \in D : j # i => (info'[j].marked <=> info[j].marked) BY <1>7, <1>8
  <2>4. info'[i].marked <=> d = 1 BY <1>2, <1>8
  <2> QED BY <1>2, <1>5, <2>1, <2>2, <2>3, <2>4
<1>12. vblanks' = Cardinality(Marked')
  <2>1. vblanks = Cardinality(Marked) /\ InfosOk(info) BY Known
  <2>2. Cardinality(Marked \cup {i}) = Cardinality(Marked) + 1 /\ Cardinality(Marked) \in Nat
    BY <1>2, <1>5, <2>1, CountFacts
  <2> QED BY <1>8, <1>11, <2>1, <2>2
<1>13. Waiting' = Waiting \ (top.wrote \cup {i})
  <2>1. Waiting' = {j \in Listed : ~info'[j].queued} BY <1>10 DEF Waiting
  <2>2. \A j \in Listed : info'[j].queued <=> info[j].queued \/ j \in top.wrote \/ j = i
    BY <1>4, <1>7, <1>8
  <2> QED BY <2>1, <2>2 DEF Waiting
<1>14. /\ Held(top, {"rearm", "complete"}) = {i} /\ Held(top, {"flip", "flipend"}) = {}
       /\ Held(top, {"flip"}) = {} /\ Held(top, {"rearm"}) = {} /\ Held(top, {"complete"}) = {i}
       /\ Held(Base', {"rearm", "complete"}) = {} /\ Held(Base', {"flip", "flipend"}) = {}
       /\ Held(Base', {"flip"}) = {} /\ Held(Base', {"rearm"}) = {} /\ Held(Base', {"complete"}) = {}
  BY <1>1, <1>3, HeldFacts DEF i
<1>15. Sane(Armed \cup {i}, timers', Base', Listed', DOMAIN info', Marked', Waiting', First', flip', flipping')
  <2>1. Sane(Armed \cup {i}, timers, Base', Listed, D, Marked', Waiting', First, flip, flipping)
    <3> HIDE DEF top
    <3>2. Placed(Armed \cup {i}, timers, Base', Listed, D, flip, flipping)
      BY <1>2, <1>4, <1>5, <1>14 DEF Sane, Placed
    <3>3. MarksOk(Armed \cup {i}, Base', Marked', flip) BY <1>2, <1>11, <1>14 DEF Sane, MarksOk
    <3>4. WaitsOk(Armed \cup {i}, timers, Base', Waiting') /\ HeadOk(Base', Waiting', First)
      BY <1>2, <1>13, <1>14 DEF Sane, WaitsOk, HeadOk
    <3> QED BY <3>2, <3>3, <3>4 DEF Sane
  <2> QED BY <1>1, <1>6, <1>8, <1>10, <2>1
<1>16. Woken /\ Spared =>
         Listed' \ Waiting' \subseteq Armed \cup {i} \cup timers' \cup Held(Base', {"rearm", "complete"})
  BY <1>1, <1>2, <1>10, <1>13, <1>14 DEF Woken, Spared, i
<1>17. /\ \A j \in DOMAIN info' : \A k \in 1..Len(info'[j].events) :
            Done(Base, j, k) => Done(Base', j, k)
       /\ Progress(info', Base')
  <2>1. Progress(info, top) BY <1>2, Known DEF EventsOk
  <2>2. ~ (top.n > 0)
    <3>1. ~ (t <= top.msc) /\ t = info[top.info].target BY <1>1, WorkFacts DEF t, i
    <3> QED BY <1>1, <2>1, <3>1 DEF Progress
  <2>3. ASSUME NEW j, NEW k \in Nat, k >= 1 PROVE ~ Done(top, j, k)
    <3>1. ~ (k <= top.n) BY <1>1, <2>2, <2>3, WorkFacts
    <3> QED BY <1>1, <3>1 DEF Done
  <2>4. \A j \in DOMAIN info' : Len(info'[j].events) \in Nat BY <1>8 DEF InfosOk, InfoRec
  <2>5. ASSUME NEW j \in DOMAIN info', NEW k \in 1..Len(info'[j].events) PROVE ~ Done(Base, j, k)
    <3>1. k \in Nat /\ k >= 1 BY <2>4
    <3> QED BY <1>2, <2>3, <3>1
  <2> QED BY <1>3, <2>5 DEF Progress
<1>19. swap' \in Msc /\ swap' <= hw BY <1>1, Known
<1>20. flipping' \in BOOLEAN /\ timers' \subseteq Info /\ flip' \in 0..Infos BY <1>1, <1>6, Known
<1>23. UNCHANGED <<on, hw, unflip, client, history>> BY <1>1, <1>6
<1>24. DOMAIN info' \ Listed' \subseteq DOMAIN info \ Listed BY <1>8, <1>10 DEF D
<1> QED BY <1>3, <1>6, <1>8, <1>9, <1>10, <1>12, <1>15, <1>16, <1>17, <1>19, <1>20, <1>23, <1>24, QuietSteps

\* Nothing of an info that is too early has been told.
LEMMA TooEarly ==
  ASSUME IInv, top.at = "complete", top.msc < info[top.info].target
  PROVE  top.n = 0 /\ \A j : \A k \in Nat : k >= 1 => ~ Done(top, j, k)
<1>1. Progress(info, top) BY WorkFacts, Known DEF EventsOk
<1>2. ~ (info[top.info].target <= top.msc) BY WorkFacts
<1>3. ~ (top.n > 0) BY <1>1, <1>2 DEF Progress
<1>4. top.n = 0 BY <1>3, WorkFacts
<1>5. ASSUME NEW j, NEW k \in Nat, k >= 1 PROVE ~ Done(top, j, k)
  <2>1. ~ (k <= top.n) BY <1>4, <1>5
  <2> QED BY <2>1 DEF Done
<1> QED BY <1>4, <1>5

\* Events are numbered from one.
LEMMA EventIndex ==
  ASSUME NEW f, InfosOk(f)
  PROVE  \A j \in DOMAIN f : /\ Len(f[j].events) \in Nat
                             /\ \A k \in 1..Len(f[j].events) : k \in Nat /\ k >= 1
BY DEF InfosOk, InfoRec

\* A timer is set for the frame.
LEMMA FakeTimerKept ==
  ASSUME IInv, top.at = "complete", top.msc < info[top.info].target,
         timers' = timers \cup {top.info}, info' = Written(info, top.wrote \cup {top.info}), Leave,
         UNCHANGED <<kernel, swap, vblanks, queue, flip, unflip, client, history>>
  PROVE  Kept
<1> DEFINE i == top.info
           u == top.wrote \cup {i}
           D == DOMAIN info
<1>2. /\ top = Base /\ i \in Info /\ i \in D
      /\ Sane(Armed, timers, top, Listed, D, Marked, Waiting, First, flip, flipping)
  BY WorkFacts
<1>3. stack' \in Seq(Frame) /\ Shape' /\ Base'.at = "idle" BY Known, LeaveFacts
<1>4. i \in Listed /\ i \notin Armed /\ i \notin timers /\ Listed \subseteq D
  BY <1>2, HeldFacts DEF Sane, Placed
<1> HIDE DEF i, u, D
<1>6. UNCHANGED <<on, hw, requests, fd, flipping>> BY DEF kernel
<1>7. KernelAs(Armed) BY <1>6, Known, KernelSame
<1>8. /\ InfosOk(info') /\ DOMAIN info' = D /\ Within(info', info)
      /\ \A j \in D : /\ info'[j].marked = info[j].marked
                      /\ info'[j].queued <=> info[j].queued \/ j \in u
  <2> DEFINE w == Written(info, u)
  <2>1. info' = w BY DEF i, u
  <2>2. /\ InfosOk(w) /\ DOMAIN w = D /\ Within(w, info)
        /\ \A j \in D : /\ w[j].marked = info[j].marked
                        /\ w[j].queued <=> info[j].queued \/ j \in u
    BY Known, WrittenFacts DEF D
  <2> HIDE DEF w
  <2> QED BY <2>1, <2>2
<1>10. /\ queue' \in Seq(DOMAIN info') /\ Sorted(queue', info')
       /\ Listed' = Listed /\ First' = First
  BY <1>4, <1>8, Known, QueueSame
<1>11. Marked' = Marked BY <1>8 DEF Marked, D
<1>12. vblanks' = Cardinality(Marked') BY <1>11, Known
<1>13. Waiting' = Waiting \ (top.wrote \cup {i})
  <2>1. Waiting' = {j \in Listed : ~info'[j].queued} BY <1>10 DEF Waiting
  <2>2. \A j \in Listed : info'[j].queued <=> info[j].queued \/ j \in top.wrote \/ j = i
    BY <1>4, <1>8 DEF u
  <2> QED BY <2>1, <2>2 DEF Waiting
<1>14. /\ Held(top, {"rearm", "complete"}) = {i} /\ Held(top, {"flip", "flipend"}) = {}
       /\ Held(top, {"flip"}) = {} /\ Held(top, {"rearm"}) = {} /\ Held(top, {"complete"}) = {i}
       /\ Held(Base', {"rearm", "complete"}) = {} /\ Held(Base', {"flip", "flipend"}) = {}
       /\ Held(Base', {"flip"}) = {} /\ Held(Base', {"rearm"}) = {} /\ Held(Base', {"complete"}) = {}
  BY <1>3, HeldFacts DEF i
<1>15. Sane(Armed, timers', Base', Listed', DOMAIN info', Marked', Waiting', First', flip', flipping')
  <2>1. Sane(Armed, timers \cup {i}, Base', Listed, D, Marked, Waiting', First, flip, flipping)
    <3> HIDE DEF top
    <3>2. Placed(Armed, timers \cup {i}, Base', Listed, D, flip, flipping)
      BY <1>2, <1>4, <1>14 DEF Sane, Placed
    <3>3. MarksOk(Armed, Base', Marked, flip) BY <1>2, <1>14 DEF Sane, MarksOk
    <3>4. WaitsOk(Armed, timers \cup {i}, Base', Waiting') /\ HeadOk(Base', Waiting', First)
      BY <1>2, <1>13, <1>14 DEF Sane, WaitsOk, HeadOk
    <3> QED BY <3>2, <3>3, <3>4 DEF Sane
  <2>2. timers' = timers \cup {i} /\ flip' = flip BY DEF i
  <2> QED BY <1>6, <1>8, <1>10, <1>11, <2>1, <2>2
<1>16. Woken /\ Spared =>
         Listed' \ Waiting' \subseteq Armed \cup timers' \cup Held(Base', {"rearm", "complete"})
  BY <1>2, <1>10, <1>13, <1>14 DEF Woken, Spared, i
<1>17. /\ \A j \in DOMAIN info' : \A k \in 1..Len(info'[j].events) :
            Done(Base, j, k) => Done(Base', j, k)
       /\ Progress(info', Base')
  BY <1>2, <1>3, <1>8, TooEarly, EventIndex DEF Progress
<1>19. swap' \in Msc /\ swap' <= hw BY Known
<1>20. flipping' \in BOOLEAN /\ timers' \subseteq Info /\ flip' \in 0..Infos
  <2>1. timers' = timers \cup {i} BY DEF i
  <2> QED BY <1>2, <1>6, <2>1, Known
<1>23. UNCHANGED <<on, hw, unflip, client, history>> BY <1>6
<1>24. DOMAIN info' \ Listed' \subseteq DOMAIN info \ Listed BY <1>8, <1>10 DEF D
<1> QED BY <1>3, <1>7, <1>8, <1>10, <1>12, <1>15, <1>16, <1>17, <1>19, <1>20, <1>23, <1>24, QuietSteps

\* The frame is near: it is completed at once.
LEMMA FakeAtOnceKept ==
  ASSUME IInv, top.at = "complete", top.msc < info[top.info].target,
         info[top.info].target <= swap + 1,
         Become([top EXCEPT !.msc = IF swap < info[top.info].target
                                    THEN info[top.info].target ELSE swap,
                            !.wrote = @ \cup {top.info}]),
         UNCHANGED <<kernel, swap, vblanks, lists, flip, unflip, client, history>>
  PROVE  Kept
<1> DEFINE i == top.info
           t == info[i].target
           m == IF swap < t THEN t ELSE swap
           u == top.wrote \cup {i}
           b == [top EXCEPT !.msc = m, !.wrote = u]
           D == DOMAIN info
<1>2. /\ top = Base /\ top \in Frame /\ i \in Info /\ i \in D /\ t \in Msc /\ t \in Int
      /\ Sane(Armed, timers, top, Listed, D, Marked, Waiting, First, flip, flipping)
  BY WorkFacts
<1>1. Become(b) OBVIOUS
<1>3. m \in Msc /\ m <= hw + 1
  <2>1. t <= swap + 1 /\ swap \in Msc /\ swap \in Int /\ hw \in Int /\ swap <= hw BY Known
  <2> HIDE DEF t
  <2> QED BY <1>2, <2>1
<1> HIDE DEF m, t
<1>4. u \in SUBSET Info BY <1>2 DEF Frame
<1> HIDE DEF u, i
<1>5. b \in Frame /\ b.at = top.at /\ b.info = top.info /\ b.msc = m /\ b.n = top.n
  <2> HIDE DEF top
  <2> QED BY <1>2, <1>3, <1>4 DEF Frame
<1> HIDE DEF b
<1>6. b.at = "complete" /\ b.info \in Info BY <1>2, <1>5 DEF i
<1>7. stack' \in Seq(Frame) /\ Shape' /\ Base' = b BY <1>1, <1>5, <1>6, Known, BecomeFacts
<1>8. UNCHANGED <<on, hw, requests, fd, flipping, info, queue, timers>> BY DEF kernel, lists
<1>9. KernelAs(Armed) BY <1>8, Known, KernelSame
<1>10. Listed' = Listed /\ Marked' = Marked /\ Waiting' = Waiting /\ First' = First
  BY <1>8, ListsSame
<1>11. Within(info', info) /\ InfosOk(info') /\ queue' \in Seq(DOMAIN info') /\ Sorted(queue', info')
  BY <1>8, Known, WithinSelf
<1>12. Held(b, {"rearm", "complete"}) = Held(top, {"rearm", "complete"}) BY <1>5 DEF Held
<1>15. Sane(Armed, timers', Base', Listed', DOMAIN info', Marked', Waiting', First', flip', flipping')
  <2>1. Sane(Armed, timers, b, Listed, D, Marked, Waiting, First, flip, flipping)
    BY <1>2, <1>5 DEF Sane, Placed, MarksOk, WaitsOk, HeadOk, Held
  <2> QED BY <1>7, <1>8, <1>10, <2>1
<1>16. Woken => Listed' \ Waiting' \subseteq Armed \cup timers' \cup Held(Base', {"rearm", "complete"})
  BY <1>2, <1>7, <1>8, <1>10, <1>12 DEF Woken
<1>17. /\ \A j \in DOMAIN info' : \A k \in 1..Len(info'[j].events) :
            Done(Base, j, k) => Done(Base', j, k)
       /\ Progress(info', Base')
  <2>1. top.n = 0 /\ Len(info[i].events) \in Nat BY <1>2, TooEarly, Known, EventIndex
  <2>2. Progress(info', Base') BY <1>5, <1>6, <1>7, <1>8, <2>1 DEF Progress, i
  <2>3. \A j, k : ~ Done(top, j, k) \/ Done(b, j, k) BY <1>5 DEF Done
  <2> QED BY <1>2, <1>7, <2>2, <2>3
<1>19. swap' \in Msc /\ swap' <= hw BY Known
<1>20. flipping' \in BOOLEAN /\ timers' \subseteq Info /\ flip' \in 0..Infos BY <1>8, Known
<1>21. Base'.msc <= hw + 1 /\ Base'.at = "complete" BY <1>3, <1>5, <1>6, <1>7
<1>22. vblanks' = Cardinality(Marked') BY <1>10, Known
<1>23. UNCHANGED <<on, hw, unflip, client, history>> BY <1>8
<1>24. DOMAIN info' \ Listed' \subseteq DOMAIN info \ Listed BY <1>8, <1>10
<1> QED BY <1>7, <1>9, <1>11, <1>15, <1>16, <1>17, <1>19, <1>20, <1>21, <1>22, <1>23, <1>24, QuietSteps

\* sna_fake_vblank
LEMMA FakeKept == ASSUME IInv, CompleteFake PROVE Kept
<1>1. /\ top.at = "complete" /\ top.msc < info[top.info].target
      /\ UNCHANGED <<kernel, swap, vblanks, queue, flip, unflip, client, history>>
  BY DEF CompleteFake, Working
<1>2. CASE /\ timers' = timers \cup {top.info}
           /\ info' = Written(info, top.wrote \cup {top.info})
           /\ Leave
  BY <1>1, <1>2, FakeTimerKept
<1>3. CASE /\ info[top.info].target <= swap + 1
           /\ Become([top EXCEPT !.msc = IF swap < info[top.info].target
                                         THEN info[top.info].target ELSE swap,
                                 !.wrote = @ \cup {top.info}])
           /\ UNCHANGED <<timers, info>>
  <2>1. UNCHANGED lists BY <1>1, <1>3 DEF lists
  <2> QED BY <1>1, <1>3, <2>1, FakeAtOnceKept
<1> QED BY <1>2, <1>3 DEF CompleteFake

\* The last event of an info has been told: on to the next one.
LEMMA NextKept == ASSUME IInv, CompleteNext PROVE Kept
<1> DEFINE i == top.info
           D == DOMAIN info
           p == CHOOSE k \in DOMAIN queue : queue[k] = i
           n == Len(queue)
           r == Freed(info, i)
           c == p < n /\ ~info[queue[p + 1]].queued
           j == queue[p + 1]
           b == [top EXCEPT !.info = j, !.n = 0]
<1>1. /\ top.at = "complete" /\ info[i].target <= top.msc
      /\ queue' = RemoveAt(queue, p)
      /\ c => Become(b) /\ info' = r
      /\ ~c => Leave /\ info' = Written(r, top.wrote)
      /\ UNCHANGED <<kernel, swap, vblanks, timers, flip, unflip, client, history>>
  <2>1. CASE c BY <2>1 DEF CompleteNext, Working
  <2>2. CASE ~c BY <2>2 DEF CompleteNext, Working
  <2> QED BY <2>1, <2>2
<1>2. /\ top = Base /\ top \in Frame /\ i \in Info /\ i \in D /\ top.msc \in Msc
      /\ Sane(Armed, timers, top, Listed, D, Marked, Waiting, First, flip, flipping)
  BY <1>1, WorkFacts
<1>3. i \in Listed /\ i \notin Armed /\ i \notin timers /\ Listed \subseteq D
  BY <1>1, <1>2, HeldFacts DEF Sane, Placed
<1>4. i # flip /\ i \notin Marked
  <2>1. i # 0 BY <1>2, BoundsAssumption DEF Info
  <2>2. i # flip BY <1>2, <1>3, <2>1 DEF Sane, Placed
  <2> QED BY <1>1, <1>2, <1>3, <2>2, HeldFacts DEF Sane, MarksOk
<1>5. p \in 1..n /\ queue[p] = i /\ n \in Nat
  <2>1. DOMAIN queue = 1..n /\ n \in Nat BY Known
  <2>2. \E k \in DOMAIN queue : queue[k] = i BY <1>3 DEF Listed, Members
  <2> HIDE DEF i, n
  <2> QED BY <2>1, <2>2
<1> HIDE DEF p, i
<1>6. /\ queue \in Seq(D) /\ Sorted(queue, info) /\ InfosOk(info) /\ \A k \in D : info[k].target \in Int
  <2>1. InfosOk(info) BY Known
  <2>2. \A k \in D : info[k].target \in Msc BY <2>1 DEF InfosOk, InfoRec
  <2> QED BY <2>1, <2>2, Known, NoneIsNone
<1>7. /\ queue' \in Seq(D) /\ Sorted(queue', info) /\ Listed' = Listed \ {i}
      /\ p # 1 => First' = First /\ First # i
      /\ p = 1 => First = i /\ First' = IF p < n THEN j ELSE 0
      /\ p < n => j \in Listed /\ j # i
  <2> DEFINE q == RemoveAt(queue, p)
  <2>1. /\ q \in Seq(D) /\ Sorted(q, info)
        /\ Members(q) = Members(queue) \ {queue[p]}
        /\ p # 1 => FirstOf(q) = FirstOf(queue) /\ FirstOf(queue) # queue[p]
        /\ p = 1 => FirstOf(queue) = queue[p] /\ FirstOf(q) = IF p < Len(queue) THEN queue[p + 1] ELSE 0
        /\ p < Len(queue) => queue[p + 1] \in Members(queue) \ {queue[p]}
    BY <1>5, <1>6, RemoveSorted
  <2> HIDE DEF q, D
  <2>2. queue' = q BY <1>1 DEF q
  <2> QED BY <1>5, <2>1, <2>2 DEF Listed, First
<1>8. /\ InfosOk(r) /\ DOMAIN r = D \ {i} /\ Within(r, info)
      /\ \A k \in D \ {i} : r[k] = info[k]
  BY <1>6, FreedFacts
<1> HIDE DEF r, n
<1>9. /\ InfosOk(info') /\ DOMAIN info' = D \ {i} /\ Within(info', info)
      /\ \A k \in D \ {i} : info'[k].marked = info[k].marked
      /\ c => \A k \in D \ {i} : info'[k].queued <=> info[k].queued
      /\ ~c => \A k \in D \ {i} : info'[k].queued <=> info[k].queued \/ k \in top.wrote
  <2>1. CASE c
    <3>1. info' = r BY <1>1, <2>1
    <3> QED BY <1>8, <2>1, <3>1
  <2>2. CASE ~c
    <3> DEFINE w == Written(r, top.wrote)
    <3>1. info' = w BY <1>1, <2>2
    <3>2. /\ InfosOk(w) /\ DOMAIN w = D \ {i} /\ Within(w, r)
          /\ \A k \in D \ {i} : /\ w[k].marked = r[k].marked
                                /\ w[k].queued <=> r[k].queued \/ k \in top.wrote
      BY <1>8, WrittenFacts
    <3> HIDE DEF w
    <3>3. Within(w, info) BY <1>8, <3>2, WithinTwice
    <3> HIDE DEF c
    <3> QED BY <1>8, <2>2, <3>1, <3>2, <3>3
  <2> QED BY <2>1, <2>2
<1>10. queue' \in Seq(DOMAIN info') /\ Sorted(queue', info')
  <2>1. Members(queue') \subseteq DOMAIN info' BY <1>3, <1>7, <1>9 DEF Listed
  <2>2. queue' \in Seq(DOMAIN info') BY <1>7, <2>1, SeqIn
  <2>3. \A k \in DOMAIN info' : info'[k].target = info[k].target BY <1>9 DEF Within
  <2>4. \A k \in 1..Len(queue') : queue'[k] \in DOMAIN info' BY <2>2
  <2> QED BY <1>7, <2>2, <2>3, <2>4 DEF Sorted
<1>11. Marked' = Marked
  <2>1. \A k \in D \ {i} : info'[k].marked <=> info[k].marked BY <1>9
  <2> QED BY <1>4, <1>9, <2>1 DEF Marked
<1>12. vblanks' = Cardinality(Marked') BY <1>1, <1>11, Known
<1>13. /\ c => Waiting' = Waiting \ {i}
       /\ ~c => Waiting' = Waiting \ ({i} \cup top.wrote)
  <2>1. Waiting' = {k \in Listed \ {i} : ~info'[k].queued} BY <1>7 DEF Waiting
  <2>2. Listed \ {i} \subseteq D \ {i} BY <1>3
  <2> HIDE DEF c, D
  <2> QED BY <1>9, <2>1, <2>2 DEF Waiting
<1>14. c => j \in Waiting /\ j \in Listed /\ j \in Info
  <2>1. Listed \subseteq Info BY <1>3, <1>6 DEF InfosOk
  <2> QED BY <1>7, <2>1 DEF Waiting
<1>15. c => b \in Frame /\ b.at = "complete" /\ b.info = j /\ b.msc = top.msc /\ b.n = 0
  <2> HIDE DEF top, j
  <2>1. j \in Info => j \in 0..Infos BY BoundsAssumption DEF Info
  <2>2. 0 \in 0..Events BY BoundsAssumption
  <2> QED BY <1>1, <1>2, <1>14, <2>1, <2>2 DEF Frame
<1> HIDE DEF b, c, j
<1>16. /\ stack' \in Seq(Frame) /\ Shape'
       /\ c => Base' = b
       /\ ~c => Base'.at = "idle"
  <2>1. CASE c
    <3>1. b.at # "keepalive" /\ b.info \in Info BY <1>14, <1>15, <2>1
    <3> QED BY <1>1, <1>15, <2>1, <3>1, Known, BecomeFacts
  <2>2. CASE ~c BY <1>1, <2>2, Known, LeaveFacts
  <2> QED BY <2>1, <2>2
<1>17. UNCHANGED <<on, hw, requests, fd, flipping>> /\ swap' = swap /\ flip' = flip /\ timers' = timers
       /\ UNCHANGED <<unflip, client, history>>
  BY <1>1 DEF kernel
<1>18. KernelAs(Armed) BY <1>17, Known, KernelSame
<1>19. /\ Held(top, {"rearm", "complete"}) = {i} /\ Held(top, {"flip", "flipend"}) = {}
       /\ Held(top, {"flip"}) = {} /\ Held(top, {"rearm"}) = {} /\ Held(top, {"complete"}) = {i}
  BY <1>1, HeldFacts DEF i
<1>20. /\ Held(Base', {"flip", "flipend"}) = {} /\ Held(Base', {"flip"}) = {} /\ Held(Base', {"rearm"}) = {}
       /\ c => Held(Base', {"rearm", "complete"}) = {j} /\ Held(Base', {"complete"}) = {j}
       /\ ~c => Held(Base', {"rearm", "complete"}) = {} /\ Held(Base', {"complete"}) = {}
  BY <1>15, <1>16, HeldFacts
<1>21. Sane(Armed, timers', Base', Listed', DOMAIN info', Marked', Waiting', First', flip', flipping')
  <2> HIDE DEF top
  <2>1. Waiting' \subseteq Waiting \ {i} BY <1>13
  <2>2. c => j \in Listed \ {i} /\ j \notin Armed /\ j \notin timers
    BY <1>2, <1>7, <1>14, <1>19 DEF Sane, WaitsOk, c
  <2>3. Placed(Armed, timers, Base', Listed \ {i}, D \ {i}, flip, flipping)
    <3>1. CASE c BY <1>2, <1>3, <1>4, <1>19, <1>20, <2>2, <3>1 DEF Sane, Placed
    <3>2. CASE ~c BY <1>2, <1>3, <1>4, <1>19, <1>20, <3>2 DEF Sane, Placed
    <3> QED BY <3>1, <3>2
  <2>4. MarksOk(Armed, Base', Marked, flip) BY <1>2, <1>19, <1>20 DEF Sane, MarksOk
  <2>5. WaitsOk(Armed, timers, Base', Waiting') BY <1>2, <1>20, <2>1 DEF Sane, WaitsOk
  <2>6. HeadOk(Base', Waiting', First')
    <3>1. CASE p # 1
      <4>1. First' = First /\ First # i BY <1>7, <3>1
      <4>2. First \notin Waiting BY <1>2, <1>19, <4>1 DEF Sane, HeadOk
      <4> QED BY <2>1, <4>1, <4>2 DEF HeadOk
    <3>2. CASE p = 1 /\ p < n
      <4>1. First' = j BY <1>7, <3>2
      <4>2. CASE c BY <1>20, <4>1, <4>2 DEF HeadOk
      <4>3. CASE ~c
        <5>1. j \notin Waiting BY <3>2, <4>3 DEF c, j, Waiting
        <5> QED BY <2>1, <4>1, <5>1 DEF HeadOk
      <4> QED BY <4>2, <4>3
    <3>3. CASE p = 1 /\ ~ (p < n)
      <4>1. First' = 0 BY <1>7, <3>3
      <4>2. Waiting \subseteq Info BY <1>3, <1>6 DEF Waiting, InfosOk
      <4>3. 0 \notin Info BY BoundsAssumption DEF Info
      <4> QED BY <2>1, <4>1, <4>2, <4>3 DEF HeadOk
    <3> QED BY <3>1, <3>2, <3>3
  <2> QED BY <1>7, <1>9, <1>11, <1>17, <2>3, <2>4, <2>5, <2>6 DEF Sane
<1>22. Woken /\ Spared =>
         Listed' \ Waiting' \subseteq Armed \cup timers' \cup Held(Base', {"rearm", "complete"})
  <2>1. CASE c BY <1>2, <1>7, <1>13, <1>17, <1>19, <2>1 DEF Woken
  <2>2. CASE ~c
    <3>1. Spared => \A k \in top.wrote : k \in Waiting => k = i BY <1>2 DEF Spared, i
    <3> QED BY <1>2, <1>7, <1>13, <1>17, <1>19, <2>2, <3>1 DEF Woken
  <2> QED BY <2>1, <2>2
<1>23. /\ \A k \in DOMAIN info' : \A l \in 1..Len(info'[k].events) :
            Done(Base, k, l) => Done(Base', k, l)
       /\ Progress(info', Base')
  <2>1. \A k \in D \ {i} : \A l : ~ Done(top, k, l) BY DEF Done, i
  <2>2. c => Len(info'[j].events) \in Nat
    <3>1. c => j \in DOMAIN info' BY <1>3, <1>7, <1>9, <1>14 DEF c
    <3> QED BY <1>9, <3>1, EventIndex
  <2>3. Progress(info', Base') BY <1>15, <1>16, <2>2 DEF Progress
  <2> QED BY <1>2, <1>9, <2>1, <2>3
<1>24. swap' \in Msc /\ swap' <= hw BY <1>17, Known
<1>25. flipping' \in BOOLEAN /\ timers' \subseteq Info /\ flip' \in 0..Infos BY <1>17, Known
<1>26. Base'.at # "flip" /\ Base'.at # "flipend" /\ (Base'.at = "complete" /\ on => Base'.msc <= hw + 1)
  <2>1. top.at = "complete" /\ on => top.msc <= hw + 1 BY <1>2, Known DEF Numbers
  <2> QED BY <1>1, <1>15, <1>16, <2>1
<1>27. DOMAIN info' \ Listed' \subseteq DOMAIN info \ Listed BY <1>7, <1>9
<1>28. UNCHANGED <<on, hw, unflip, client, history>> BY <1>17
<1> QED BY <1>9, <1>10, <1>12, <1>16, <1>18, <1>21, <1>22, <1>23, <1>24, <1>25, <1>26, <1>27, <1>28, QuietSteps

\* sna_fake_vblank_handler is called too early, and asks for the frame, ...
LEMMA RearmKernelKept ==
  ASSUME IInv, top.at = "rearm",
         WaitVblank(top.info, info[top.info].target),
         AddToCrtc(top.info, info[top.info].target - top.msc, info), Leave,
         UNCHANGED <<swap, queue, timers, flip, unflip, client, history>>
  PROVE  Kept
<1> DEFINE i == top.info
           t == info[i].target
           d == t - top.msc
           D == DOMAIN info
<1>1. WaitVblank(i, t) /\ AddToCrtc(i, d, info) /\ timers' = timers OBVIOUS
<1>2. /\ top = Base /\ i \in Info /\ i \in D /\ t \in Msc
      /\ Sane(Armed, timers, top, Listed, D, Marked, Waiting, First, flip, flipping)
  BY WorkFacts
<1>3. stack' \in Seq(Frame) /\ Shape' /\ Base'.at = "idle" BY Known, LeaveFacts
<1>4. i \in Listed /\ i \notin Armed /\ i \notin timers /\ Listed \subseteq D
  BY <1>2, HeldFacts DEF Sane, Placed
<1>5. i # flip /\ i \notin Marked
  <2>1. i # 0 BY <1>2, BoundsAssumption DEF Info
  <2>2. i # flip BY <1>2, <1>4, <2>1 DEF Sane, Placed
  <2> QED BY <1>2, <1>4, <2>2, HeldFacts DEF Sane, MarksOk
<1> HIDE DEF i, t, d, D
<1>6. KernelAs(Armed \cup {i}) /\ on /\ UNCHANGED <<on, hw, flipping>>
  BY <1>1, <1>2, <1>4, Known, WaitFacts
<1>8. /\ InfosOk(info') /\ DOMAIN info' = D /\ Within(info', info)
      /\ info'[i].marked <=> d = 1
      /\ \A j \in D : /\ j # i => (info'[j].marked <=> info[j].marked)
                      /\ info'[j].queued <=> j = i \/ info[j].queued
      /\ vblanks' = vblanks + (IF d = 1 THEN 1 ELSE 0)
  <2>1. InfosOk(info) /\ i \in DOMAIN info BY <1>2, Known DEF D
  <2> QED BY <1>1, <2>1, CrtcFacts DEF D
<1>10. /\ queue' \in Seq(DOMAIN info') /\ Sorted(queue', info')
       /\ Listed' = Listed /\ First' = First
  BY <1>4, <1>8, Known, QueueSame
<1>11. Marked' = IF d = 1 THEN Marked \cup {i} ELSE Marked
  <2>1. Marked = {j \in D : info[j].marked} BY DEF Marked, D
  <2>2. Marked' = {j \in D : info'[j].marked} BY <1>8 DEF Marked
  <2> QED BY <1>2, <1>5, <1>8, <2>1, <2>2
<1>12. vblanks' = Cardinality(Marked')
  <2>1. vblanks = Cardinality(Marked) /\ InfosOk(info) BY Known
  <2>2. Cardinality(Marked \cup {i}) = Cardinality(Marked) + 1 /\ Cardinality(Marked) \in Nat
    BY <1>2, <1>5, <2>1, CountFacts
  <2> QED BY <1>8, <1>11, <2>1, <2>2
<1>14. /\ Held(top, {"rearm", "complete"}) = {i} /\ Held(top, {"flip", "flipend"}) = {}
       /\ Held(top, {"flip"}) = {} /\ Held(top, {"rearm"}) = {i} /\ Held(top, {"complete"}) = {}
       /\ Held(Base', {"rearm", "complete"}) = {} /\ Held(Base', {"flip", "flipend"}) = {}
       /\ Held(Base', {"flip"}) = {} /\ Held(Base', {"rearm"}) = {} /\ Held(Base', {"complete"}) = {}
  BY <1>3, HeldFacts DEF i
<1>13. Waiting' = Waiting /\ i \notin Waiting
  <2>1. Waiting' = {j \in Listed : ~info'[j].queued} BY <1>10 DEF Waiting
  <2>2. i \notin Waiting BY <1>2, <1>14 DEF Sane, WaitsOk
  <2> QED BY <1>4, <1>8, <2>1, <2>2 DEF Waiting
<1>15. Sane(Armed \cup {i}, timers', Base', Listed', DOMAIN info', Marked', Waiting', First', flip', flipping')
  <2>1. Sane(Armed \cup {i}, timers, Base', Listed, D, Marked', Waiting, First, flip, flipping)
    <3> HIDE DEF top
    <3>2. Placed(Armed \cup {i}, timers, Base', Listed, D, flip, flipping)
      BY <1>2, <1>4, <1>5, <1>14 DEF Sane, Placed
    <3>3. MarksOk(Armed \cup {i}, Base', Marked', flip) BY <1>2, <1>11, <1>14 DEF Sane, MarksOk
    <3>4. WaitsOk(Armed \cup {i}, timers, Base', Waiting) /\ HeadOk(Base', Waiting, First)
      BY <1>2, <1>13, <1>14 DEF Sane, WaitsOk, HeadOk
    <3> QED BY <3>2, <3>3, <3>4 DEF Sane
  <2> QED BY <1>1, <1>6, <1>8, <1>10, <1>13, <2>1
<1>16. Woken =>
         Listed' \ Waiting' \subseteq Armed \cup {i} \cup timers' \cup Held(Base', {"rearm", "complete"})
  BY <1>1, <1>2, <1>10, <1>13, <1>14 DEF Woken
<1>17. /\ \A j \in DOMAIN info' : \A k \in 1..Len(info'[j].events) :
            Done(Base, j, k) => Done(Base', j, k)
       /\ Progress(info', Base')
  BY <1>2, <1>3 DEF Progress, Done
<1>19. swap' \in Msc /\ swap' <= hw BY Known
<1>20. flipping' \in BOOLEAN /\ timers' \subseteq Info /\ flip' \in 0..Infos BY <1>1, <1>6, Known
<1>23. UNCHANGED <<on, hw, unflip, client, history>> BY <1>6
<1>24. DOMAIN info' \ Listed' \subseteq DOMAIN info \ Listed BY <1>8, <1>10 DEF D
<1> QED BY <1>3, <1>6, <1>8, <1>10, <1>12, <1>15, <1>16, <1>17, <1>19, <1>20, <1>23, <1>24, QuietSteps

\* ... or sets the timer again.
LEMMA RearmTimerKept ==
  ASSUME IInv, top.at = "rearm", timers' = timers \cup {top.info}, Leave,
         UNCHANGED <<kernel, vblanks, info, swap, queue, flip, unflip, client, history>>
  PROVE  Kept
<1> DEFINE i == top.info
           D == DOMAIN info
<1>2. /\ top = Base /\ i \in Info /\ i \in D
      /\ Sane(Armed, timers, top, Listed, D, Marked, Waiting, First, flip, flipping)
  BY WorkFacts
<1>3. stack' \in Seq(Frame) /\ Shape' /\ Base'.at = "idle" BY Known, LeaveFacts
<1>4. i \in Listed /\ i \notin Armed /\ i \notin timers /\ Listed \subseteq D
  BY <1>2, HeldFacts DEF Sane, Placed
<1> HIDE DEF i, D
<1>6. /\ UNCHANGED <<on, hw, requests, fd, flipping, info, queue>>
      /\ timers' = timers \cup {i} /\ flip' = flip /\ vblanks' = vblanks
  BY DEF kernel, i
<1>7. KernelAs(Armed) BY <1>6, Known, KernelSame
<1>8. Listed' = Listed /\ Marked' = Marked /\ Waiting' = Waiting /\ First' = First
  BY <1>6, ListsSame
<1>9. Within(info', info) /\ InfosOk(info') /\ queue' \in Seq(DOMAIN info') /\ Sorted(queue', info')
  BY <1>6, Known, WithinSelf
<1>14. /\ Held(top, {"rearm", "complete"}) = {i} /\ Held(top, {"flip", "flipend"}) = {}
       /\ Held(top, {"flip"}) = {} /\ Held(top, {"rearm"}) = {i} /\ Held(top, {"complete"}) = {}
       /\ Held(Base', {"rearm", "complete"}) = {} /\ Held(Base', {"flip", "flipend"}) = {}
       /\ Held(Base', {"flip"}) = {} /\ Held(Base', {"rearm"}) = {} /\ Held(Base', {"complete"}) = {}
  BY <1>3, HeldFacts DEF i
<1>15. Sane(Armed, timers', Base', Listed', DOMAIN info', Marked', Waiting', First', flip', flipping')
  <2>1. Sane(Armed, timers \cup {i}, Base', Listed, D, Marked, Waiting, First, flip, flipping)
    <3> HIDE DEF top
    <3> QED BY <1>2, <1>4, <1>14 DEF Sane, Placed, MarksOk, WaitsOk, HeadOk
  <2> QED BY <1>6, <1>8, <2>1 DEF D
<1>16. Woken => Listed' \ Waiting' \subseteq Armed \cup timers' \cup Held(Base', {"rearm", "complete"})
  BY <1>2, <1>6, <1>8, <1>14 DEF Woken
<1>17. /\ \A j \in DOMAIN info' : \A k \in 1..Len(info'[j].events) :
            Done(Base, j, k) => Done(Base', j, k)
       /\ Progress(info', Base')
  BY <1>2, <1>3 DEF Progress, Done
<1>19. swap' \in Msc /\ swap' <= hw BY Known
<1>20. flipping' \in BOOLEAN /\ timers' \subseteq Info /\ flip' \in 0..Infos BY <1>2, <1>6, Known
<1>22. vblanks' = Cardinality(Marked') BY <1>6, <1>8, Known
<1>23. UNCHANGED <<on, hw, unflip, client, history>> BY <1>6
<1>24. DOMAIN info' \ Listed' \subseteq DOMAIN info \ Listed BY <1>6, <1>8
<1> QED BY <1>3, <1>7, <1>9, <1>15, <1>16, <1>17, <1>19, <1>20, <1>22, <1>23, <1>24, QuietSteps

\* sna_fake_vblank_handler
LEMMA RearmKept == ASSUME IInv, Rearm PROVE Kept
<1> DEFINE d == info[top.info].target - top.msc
<1>1. /\ top.at = "rearm" /\ Leave
      /\ UNCHANGED <<swap, queue, flip, unflip, client, history>>
  BY DEF Rearm, Working
<1>2. \/ /\ WaitVblank(top.info, info[top.info].target)
         /\ AddToCrtc(top.info, d, info)
         /\ UNCHANGED timers
      \/ /\ timers' = timers \cup {top.info}
         /\ UNCHANGED <<kernel, vblanks, info>>
  BY DEF Rearm
<1>3. CASE /\ WaitVblank(top.info, info[top.info].target)
           /\ AddToCrtc(top.info, d, info)
           /\ UNCHANGED timers
  BY <1>1, <1>3, RearmKernelKept
<1>4. CASE timers' = timers \cup {top.info} /\ UNCHANGED <<kernel, vblanks, info>>
  BY <1>1, <1>4, RearmTimerKept
<1> QED BY <1>2, <1>3, <1>4

\* A flip is over: its info is in nothing.
LEMMA EndFacts ==
  ASSUME IInv, top.at = "flipend", Leave
  PROVE  /\ top.info \in Info /\ top.info \in DOMAIN info /\ top.info \notin Listed
         /\ top.info # flip /\ top.info \notin Marked /\ Listed \subseteq DOMAIN info
         /\ stack' \in Seq(Frame) /\ Shape' /\ Base.at = "flipend" /\ Base'.at = "idle"
         /\ Sane(Armed, timers, Base', Listed, DOMAIN info \ {top.info}, Marked, Waiting, First, flip, flipping)
         /\ Held(Base, {"rearm", "complete"}) = {} /\ Held(Base', {"rearm", "complete"}) = {}
         /\ \A j : \A k : j # top.info => ~ Done(Base, j, k)
<1> DEFINE i == top.info
           D == DOMAIN info
<1>2. /\ top = Base /\ i \in Info /\ i \in D
      /\ Sane(Armed, timers, top, Listed, D, Marked, Waiting, First, flip, flipping)
  BY WorkFacts
<1>3. stack' \in Seq(Frame) /\ Shape' /\ Base'.at = "idle" BY Known, LeaveFacts
<1>6. \A j : \A k : j # i => ~ Done(top, j, k) BY DEF Done
<1> HIDE DEF i, D
<1>4. /\ Held(top, {"rearm", "complete"}) = {} /\ Held(top, {"flip", "flipend"}) = {i}
      /\ Held(top, {"flip"}) = {} /\ Held(top, {"rearm"}) = {} /\ Held(top, {"complete"}) = {}
      /\ Held(Base', {"rearm", "complete"}) = {} /\ Held(Base', {"flip", "flipend"}) = {}
      /\ Held(Base', {"flip"}) = {} /\ Held(Base', {"rearm"}) = {} /\ Held(Base', {"complete"}) = {}
  BY <1>3, HeldFacts DEF i
<1>5. i \notin Listed /\ i # flip /\ i \notin Armed /\ i \notin Marked /\ Listed \subseteq D
  <2>1. i \notin Listed /\ i # flip /\ Listed \subseteq D BY <1>2, <1>4 DEF Sane, Placed
  <2>2. i \notin Armed BY <1>2, <2>1 DEF Sane, Placed
  <2> QED BY <1>2, <1>4, <2>1, <2>2 DEF Sane, MarksOk
<1>7. Sane(Armed, timers, Base', Listed, D \ {i}, Marked, Waiting, First, flip, flipping)
  <2> HIDE DEF top
  <2> QED BY <1>2, <1>4, <1>5 DEF Sane, Placed, MarksOk, WaitsOk, HeadOk
<1>8. Base.at = "flipend" BY <1>2
<1>9. Held(Base, {"rearm", "complete"}) = {} /\ \A j : \A k : j # i => ~ Done(Base, j, k)
  BY <1>2, <1>4, <1>6
<1> QED BY <1>2, <1>3, <1>4, <1>5, <1>7, <1>8, <1>9 DEF i, D

\* The flip is over.
LEMMA FlipEndKept == ASSUME IInv, FlipEnd PROVE Kept
<1> DEFINE i == top.info
           D == DOMAIN info
<1>1. /\ top.at = "flipend" /\ info' = Freed(info, i) /\ Leave
      /\ UNCHANGED <<kernel, swap, vblanks, queue, timers, flip, unflip, client, history>>
  BY DEF FlipEnd, Working
<1>2. /\ i \in Info /\ i \in D /\ i \notin Listed /\ i \notin Marked /\ Listed \subseteq D
      /\ stack' \in Seq(Frame) /\ Shape' /\ Base'.at = "idle"
      /\ Sane(Armed, timers, Base', Listed, D \ {i}, Marked, Waiting, First, flip, flipping)
      /\ Held(Base, {"rearm", "complete"}) = {} /\ Held(Base', {"rearm", "complete"}) = {}
      /\ \A j : \A k : j # i => ~ Done(Base, j, k)
  BY <1>1, EndFacts
<1> HIDE DEF i, D
<1>6. /\ UNCHANGED <<on, hw, requests, fd, flipping>>
      /\ timers' = timers /\ flip' = flip /\ vblanks' = vblanks
  BY <1>1 DEF kernel
<1>7. KernelAs(Armed) BY <1>6, Known, KernelSame
<1>8. /\ InfosOk(info') /\ DOMAIN info' = D \ {i} /\ Within(info', info)
      /\ \A k \in D \ {i} : info'[k] = info[k]
  <2>1. InfosOk(info) BY Known
  <2> QED BY <1>1, <2>1, FreedFacts DEF D
<1>9. /\ queue' \in Seq(DOMAIN info') /\ Sorted(queue', info')
      /\ Listed' = Listed /\ First' = First
  <2>1. Listed \subseteq DOMAIN info' BY <1>2, <1>8
  <2> QED BY <1>1, <1>8, <2>1, Known, QueueSame
<1>10. Marked' = Marked BY <1>2, <1>8 DEF Marked, D
<1>11. Waiting' = Waiting BY <1>2, <1>8, <1>9 DEF Waiting
<1>15. Sane(Armed, timers', Base', Listed', DOMAIN info', Marked', Waiting', First', flip', flipping')
  BY <1>2, <1>6, <1>8, <1>9, <1>10, <1>11
<1>16. Woken => Listed' \ Waiting' \subseteq Armed \cup timers' \cup Held(Base', {"rearm", "complete"})
  BY <1>2, <1>6, <1>9, <1>11 DEF Woken
<1>17. /\ \A j \in DOMAIN info' : \A k \in 1..Len(info'[j].events) :
            Done(Base, j, k) => Done(Base', j, k)
       /\ Progress(info', Base')
  BY <1>2, <1>8 DEF Progress
<1>19. swap' \in Msc /\ swap' <= hw BY <1>1, Known
<1>20. flipping' \in BOOLEAN /\ timers' \subseteq Info /\ flip' \in 0..Infos BY <1>6, Known
<1>22. vblanks' = Cardinality(Marked') BY <1>6, <1>10, Known
<1>23. UNCHANGED <<on, hw, unflip, client, history>> BY <1>1, <1>6
<1>24. DOMAIN info' \ Listed' \subseteq DOMAIN info \ Listed BY <1>8, <1>9 DEF D
<1> QED BY <1>2, <1>7, <1>8, <1>9, <1>15, <1>16, <1>17, <1>19, <1>20, <1>22, <1>23, <1>24, QuietSteps

\* The event of a flip has been told.
LEMMA FlipClearKept == ASSUME IInv, FlipClear PROVE Kept
<1> DEFINE i == top.info
           D == DOMAIN info
           c == info[i].marked
           b == At("flipend", i, 0)
           k == At("keepalive", 0, top.msc + 1)
<1>1. /\ top.at = "flip" /\ top.n = 1
      /\ c => /\ vblanks' = vblanks - 1 /\ info' = [info EXCEPT ![i].marked = FALSE]
              /\ stack' = (IF vblanks = 1 THEN <<k>> ELSE <<>>) \o <<b>> \o Tail(stack)
      /\ ~c => Become(b) /\ vblanks' = vblanks /\ info' = info
      /\ UNCHANGED <<kernel, swap, queue, timers, flip, unflip, client, history>>
  <2>1. CASE c BY <2>1 DEF FlipClear, Working
  <2>2. CASE ~c BY <2>2 DEF FlipClear, Working
  <2> QED BY <2>1, <2>2
<1>2. /\ top = Base /\ i \in Info /\ i \in D
      /\ Sane(Armed, timers, top, Listed, D, Marked, Waiting, First, flip, flipping)
  BY <1>1, WorkFacts
<1>3. i \in 0..Infos BY <1>2, BoundsAssumption DEF Info
<1>4. 0 \in Msc BY BoundsAssumption DEF Msc
<1>5. top.msc + 1 \in Msc
  <2>1. Base.at = "flip" => Base.msc <= hw BY Known DEF Numbers
  <2>2. top.msc <= hw /\ hw \in 0..MaxMsc /\ top.msc \in Msc BY <1>1, <1>2, <2>1, Known, WorkFacts
  <2> HIDE DEF top
  <2> QED BY <2>2, BoundsAssumption DEF Msc
<1>6. b \in Frame /\ b.at = "flipend" /\ b.info = i BY <1>3, <1>4, AtFacts
<1>7. k \in Frame /\ k.at = "keepalive" /\ k.info = 0
  <2>1. 0 \in 0..Infos BY BoundsAssumption
  <2> QED BY <1>5, <2>1, AtFacts
<1> HIDE DEF b, k, i
<1>8. stack' \in Seq(Frame) /\ Shape' /\ Base' = b
  <2>0. b.info \in Info BY <1>2, <1>6
  <2>1. CASE ~c BY <1>1, <1>6, <2>0, <2>1, Known, BecomeFacts
  <2>2. CASE c
    <3>1. stack = <<top>> BY <1>1, Known, StackFacts
    <3> HIDE DEF top
    <3>2. Tail(<<top>>) = <<>> OBVIOUS
    <3>3. stack' = (IF vblanks = 1 THEN <<k>> ELSE <<>>) \o <<b>> \o <<>>
      BY <1>1, <2>2, <3>1, <3>2
    <3>4. CASE vblanks = 1
      <4>1. stack' = (<<k>> \o <<b>>) \o <<>> BY <3>3, <3>4
      <4>2. <<k>> \in Seq(Frame) /\ <<b>> \in Seq(Frame) BY <1>6, <1>7
      <4>3. <<k>> \o <<b>> \in Seq(Frame) BY <4>2, ConcatProperties
      <4>4. stack' = <<k>> \o <<b>> BY <4>1, <4>3, ConcatEmptySeq
      <4> QED BY <1>6, <1>7, <2>0, <4>4, TwoFrames
    <3>5. CASE vblanks # 1
      <4>1. stack' = (<<>> \o <<b>>) \o <<>> BY <3>3, <3>5
      <4>2. <<b>> \in Seq(Frame) BY <1>6
      <4>3. <<>> \o <<b>> = <<b>> BY <4>2, ConcatEmptySeq
      <4>4. stack' = <<b>> BY <4>1, <4>2, <4>3, ConcatEmptySeq
      <4> QED BY <1>6, <2>0, <4>4, OneFrame
    <3> QED BY <3>4, <3>5
  <2> QED BY <2>1, <2>2
<1>9. /\ Held(top, {"rearm", "complete"}) = {} /\ Held(top, {"flip", "flipend"}) = {i}
      /\ Held(top, {"flip"}) = {i} /\ Held(top, {"rearm"}) = {} /\ Held(top, {"complete"}) = {}
      /\ Held(b, {"rearm", "complete"}) = {} /\ Held(b, {"flip", "flipend"}) = {i}
      /\ Held(b, {"flip"}) = {} /\ Held(b, {"rearm"}) = {} /\ Held(b, {"complete"}) = {}
  BY <1>1, <1>6, HeldFacts DEF i
<1>10. i \notin Listed /\ i # flip /\ Listed \subseteq D
  BY <1>2, <1>9 DEF Sane, Placed
<1>11. /\ InfosOk(info') /\ DOMAIN info' = D /\ Within(info', info)
       /\ \A j \in D : /\ info'[j].marked <=> j # i /\ info[j].marked
                       /\ info'[j].queued <=> info[j].queued
  <2>1. InfosOk(info) /\ i \in DOMAIN info BY <1>2, Known
  <2>2. CASE c
    <3>1. info' = [info EXCEPT ![i].marked = FALSE] BY <1>1, <2>2
    <3> QED BY <2>1, <3>1, MarkFacts
  <2>3. CASE ~c
    <3>1. info' = info BY <1>1, <2>3
    <3> QED BY <2>1, <2>3, <3>1, WithinSelf
  <2> QED BY <2>2, <2>3
<1>12. /\ queue' \in Seq(DOMAIN info') /\ Sorted(queue', info')
       /\ Listed' = Listed /\ First' = First
  BY <1>1, <1>10, <1>11, Known, QueueSame
<1>13. Marked' = Marked \ {i} BY <1>11 DEF Marked
<1>14. Waiting' = Waiting BY <1>10, <1>11, <1>12 DEF Waiting
<1>15. vblanks' = Cardinality(Marked')
  <2>1. c <=> i \in Marked BY <1>2 DEF Marked
  <2>2. vblanks = Cardinality(Marked) /\ InfosOk(info) BY Known
  <2>3. CASE i \in Marked
    <3>1. vblanks' = vblanks - 1 BY <1>1, <2>1, <2>3
    <3>2. Cardinality(Marked \ {i}) = Cardinality(Marked) - 1 BY <1>2, <2>2, <2>3, CountFacts
    <3> QED BY <1>13, <2>2, <3>1, <3>2
  <2>4. CASE i \notin Marked
    <3>1. vblanks' = vblanks BY <1>1, <2>1, <2>4
    <3>2. Marked \ {i} = Marked BY <2>4
    <3> QED BY <1>13, <2>2, <3>1, <3>2
  <2> QED BY <2>3, <2>4
<1>16. /\ UNCHANGED <<on, hw, requests, fd, flipping>>
       /\ timers' = timers /\ flip' = flip /\ swap' = swap
       /\ UNCHANGED <<unflip, client, history>>
  BY <1>1 DEF kernel
<1>17. KernelAs(Armed) BY <1>16, Known, KernelSame
<1>18. Sane(Armed, timers', Base', Listed', DOMAIN info', Marked', Waiting', First', flip', flipping')
  <2>1. Sane(Armed, timers, b, Listed, D, Marked \ {i}, Waiting, First, flip, flipping)
    <3> HIDE DEF top
    <3> QED BY <1>2, <1>9 DEF Sane, Placed, MarksOk, WaitsOk, HeadOk
  <2> QED BY <1>8, <1>11, <1>12, <1>13, <1>14, <1>16, <2>1
<1>19. Woken => Listed' \ Waiting' \subseteq Armed \cup timers' \cup Held(Base', {"rearm", "complete"})
  BY <1>2, <1>8, <1>9, <1>12, <1>14, <1>16 DEF Woken
<1>20. /\ \A j \in DOMAIN info' : \A l \in 1..Len(info'[j].events) :
            Done(Base, j, l) => Done(Base', j, l)
       /\ Progress(info', Base')
  <2>1. \A j, l : Done(top, j, l) => Done(b, j, l) BY <1>1, <1>6 DEF Done, i
  <2> QED BY <1>2, <1>6, <1>8, <2>1 DEF Progress
<1>21. Base'.at = "flipend" BY <1>6, <1>8
<1>22. swap' \in Msc /\ swap' <= hw BY <1>16, Known
<1>23. flipping' \in BOOLEAN /\ timers' \subseteq Info /\ flip' \in 0..Infos BY <1>16, Known
<1>24. DOMAIN info' \ Listed' \subseteq DOMAIN info \ Listed BY <1>11, <1>12
<1>25. unflip # 0 => flip' = 0 BY <1>1, <1>2, <1>16, Known DEF Unflipped
<1>26. UNCHANGED <<on, hw, unflip, client, history>> BY <1>16
<1> QED BY <1>8, <1>11, <1>12, <1>15, <1>17, <1>18, <1>19, <1>20, <1>21, <1>22, <1>23, <1>24, <1>25, <1>26, QuietSteps

\* sna_present_get_ust_msc
LEMMA GetMscKept == ASSUME IInv, GetMsc PROVE Kept
<1> DEFINE f == At("keepalive", 0, hw + 1)
<1>1. /\ swap' = hw /\ stack' = <<f>> \o stack /\ top.at \in {"idle", "complete", "flip", "flipend"}
      /\ UNCHANGED <<kernel, vblanks, lists, flip, unflip, client, history>>
  BY DEF GetMsc, Call, Extension
<1>2. f \in Frame /\ f.at = "keepalive" /\ f.info = 0
  <2>1. 0 \in 0..Infos /\ hw + 1 \in Msc BY BoundsAssumption, Known
  <2> QED BY <2>1, AtFacts
<1> HIDE DEF f
<1>3. stack' \in Seq(Frame) /\ Shape' /\ Aside BY <1>1, <1>2, Known, KeepAliveCalled
<1>4. /\ UNCHANGED <<on, hw, requests, fd, flipping, info, queue>>
      /\ timers' = timers /\ flip' = flip /\ vblanks' = vblanks
  BY <1>1 DEF kernel, lists
<1>5. KernelAs(Armed) BY <1>4, Known, KernelSame
<1>6. Listed' = Listed /\ Marked' = Marked /\ Waiting' = Waiting /\ First' = First
  BY <1>4, ListsSame
<1>7. Within(info', info) /\ InfosOk(info') /\ queue' \in Seq(DOMAIN info') /\ Sorted(queue', info')
  BY <1>4, Known, WithinSelf
<1>8. Sane(Armed, timers', Base', Listed', DOMAIN info', Marked', Waiting', First', flip', flipping')
  <2>1. Sane(Armed, timers, Base, Listed, DOMAIN info, Marked, Waiting, First, flip, flipping)
    BY Known DEF Places
  <2>2. Sane(Armed, timers, Base', Listed, DOMAIN info, Marked, Waiting, First, flip, flipping)
    BY <1>3, <2>1, AsideSame
  <2> QED BY <1>4, <1>6, <2>2
<1>9. Woken => Listed' \ Waiting' \subseteq Armed \cup timers' \cup Held(Base', {"rearm", "complete"})
  BY <1>3, <1>4, <1>6, AsideSame DEF Woken
<1>10. /\ \A i \in DOMAIN info' : \A k \in 1..Len(info'[i].events) :
            Done(Base, i, k) => Done(Base', i, k)
       /\ Progress(info', Base')
  <2>1. Progress(info, Base) BY Known DEF EventsOk
  <2>2. Progress(info', Base') BY <1>3, <1>4, <2>1, AsideSame
  <2> QED BY <1>3, <2>2, AsideSame
<1>11. /\ Base'.at = "complete" /\ on => Base'.msc <= hw + 1
       /\ Base'.at = "flip" => Base'.msc <= hw
       /\ unflip # 0 /\ Base'.at \in {"flip", "flipend"} => flip' = 0
  <2>1. Base'.at \in {"complete", "flip", "flipend"} => Base' = Base BY <1>3, AsideSame
  <2>2. Numbers /\ Unflipped BY Known
  <2> QED BY <1>4, <2>1, <2>2 DEF Numbers, Unflipped
<1>12. swap' \in Msc /\ swap' <= hw BY <1>1, Known
<1>13. flipping' \in BOOLEAN /\ timers' \subseteq Info /\ flip' \in 0..Infos BY <1>4, Known
<1>14. vblanks' = Cardinality(Marked') BY <1>4, <1>6, Known
<1>15. UNCHANGED <<on, hw, unflip, client, history>> BY <1>1, <1>4
<1>16. DOMAIN info' \ Listed' \subseteq DOMAIN info \ Listed BY <1>4, <1>6
<1> QED BY <1>3, <1>5, <1>7, <1>8, <1>9, <1>10, <1>11, <1>12, <1>13, <1>14, <1>15, <1>16, QuietSteps

\* An event of an info is told.
LEMMA TellKept ==
  ASSUME IInv, top.at \in {"complete", "flip"},
         top.n + 1 <= Len(info[top.info].events),
         top.at = "complete" => info[top.info].target <= top.msc,
         top.at = "flip" => top.n = 0,
         Notify(info[top.info].events[top.n + 1], top.msc),
         NEW b, b = [top EXCEPT !.n = top.n + 1], Become(b),
         UNCHANGED <<kernel, swap, vblanks, lists, flip, unflip, client>>
  PROVE  Kept
<1> DEFINE i == top.info
           k == top.n + 1
           es == info[i].events
           e == es[k]
           t == info[i].target
           D == DOMAIN info
<1>2. /\ top = Base /\ top \in Frame /\ i \in Info /\ i \in D /\ t \in Msc /\ t \in Int
      /\ es \in Seq(Event) /\ top.msc \in Int /\ top.n \in Nat
      /\ Sane(Armed, timers, top, Listed, D, Marked, Waiting, First, flip, flipping)
  BY WorkFacts
<1>3. k \in 1..Len(es) /\ e \in Event
  <2> HIDE DEF top
  <2> QED BY <1>2
<1>4. Len(es) <= given /\ given \in 0..Events BY <1>2, Known DEF EventsOk, Past
<1>5. k \in 0..Events
  <2>1. k <= Len(es) /\ Len(es) \in Nat /\ k \in Nat BY <1>2, <1>3
  <2> HIDE DEF k, es
  <2> QED BY <1>4, <2>1, BoundsAssumption
<1>6. UNCHANGED <<on, hw, requests, fd, flipping, info, queue, swap, given, shown>>
      /\ timers' = timers /\ flip' = flip /\ vblanks' = vblanks /\ unflip' = unflip
  BY DEF kernel, lists, client
<1>7. asked[e] = t
  <2>1. Pending(info, Base, asked) BY Known DEF EventsOk
  <2>2. ~ Done(Base, i, k)
    <3>1. ~ (k <= top.n) BY <1>2
    <3> QED BY <1>2, <3>1 DEF Done
  <2> QED BY <1>2, <1>3, <2>1, <2>2 DEF Pending
<1>8. t <= top.msc /\ (on => top.msc <= hw + 1)
  <2>1. CASE top.at = "complete" BY <1>2, <2>1, Known DEF Numbers
  <2>2. CASE top.at = "flip"
    <3>1. i \notin Listed BY <1>2, <2>2, HeldFacts DEF Sane, Placed
    <3>2. t = 0 BY <1>2, <3>1, Known DEF EventsOk, FlipsOk
    <3>3. top.msc \in Nat BY WorkFacts, NoneIsNone
    <3>4. top.msc <= hw /\ hw \in Int BY <1>2, <2>2, Known DEF Numbers
    <3> QED BY <1>2, <3>2, <3>3, <3>4
  <2> QED BY <2>1, <2>2
<1>9. b.at = top.at /\ b.info = i /\ b.msc = top.msc /\ b.n = k /\ b \in Frame
  <2>1. b = [top EXCEPT !.n = k] /\ i = top.info OBVIOUS
  <2> HIDE DEF top, k, i
  <2> QED BY <1>2, <1>5, <2>1 DEF Frame
<1>10. stack' \in Seq(Frame) /\ Shape' /\ Base' = b
  <2>1. b.at # "keepalive" /\ b.info \in Info BY <1>2, <1>9
  <2> QED BY <1>9, <2>1, Known, BecomeFacts
<1>11. HistoryOk' /\ Promised /\ asked' = [asked EXCEPT ![e] = None] /\ e <= given
  <2>1. Notify(e, top.msc) OBVIOUS
  <2>2. HistoryOk /\ hw \in Int /\ asked[e] \in Msc /\ asked[e] <= top.msc /\ given' = given
    BY <1>2, <1>6, <1>7, <1>8, Known
  <2>3. top.msc \in Int /\ e \in Event BY <1>2, <1>3
  <2>4. on => top.msc <= hw + 1 BY <1>8
  <2> HIDE DEF e, top
  <2> QED BY <2>1, <2>2, <2>3, <2>4, NotifyFacts
<1>12. Listed' = Listed /\ Marked' = Marked /\ Waiting' = Waiting /\ First' = First
  BY <1>6, ListsSame
<1>13. EventsOk'
  <2>1. Events1(info, unflip) /\ Pending(info, Base, asked) /\ Past(info, given)
        /\ FlipsOk(info, Listed) /\ Progress(info, Base)
    BY Known DEF EventsOk
  <2>2. ASSUME NEW j \in D, NEW l \in 1..Len(info[j].events), Done(Base, j, l) \/ (j = i /\ l = k)
        PROVE  Done(b, j, l)
    <3>1. l \in Nat
      <4>1. Len(info[j].events) \in Nat BY Known, EventIndex
      <4> QED BY <4>1
    <3>2. l <= top.n => l <= top.n + 1 BY <1>2, <3>1
    <3>3. j = i /\ l <= k BY <1>2, <2>2, <3>1, <3>2 DEF Done
    <3> HIDE DEF top, k
    <3> QED BY <1>9, <3>3 DEF Done
  <2>3. Pending(info, b, [asked EXCEPT ![e] = None])
    <3>1. asked \in [Event -> Msc \cup {None}] BY Known DEF HistoryOk
    <3>2. \A j \in D : info[j].events \in Seq(Event) BY Known DEF InfosOk, InfoRec
    <3> HIDE DEF top, k, i
    <3> QED BY <1>2, <1>3, <2>1, <2>2, <3>1, <3>2, TellEvents
  <2>4. Progress(info, b)
    <3>1. b.at = "complete" => b.n <= Len(info[b.info].events)
                               /\ (b.n > 0 => info[b.info].target <= b.msc)
      <4>1. k <= Len(es) BY <1>3
      <4> QED BY <1>8, <1>9, <4>1
    <3>2. b.at = "flip" => b.n <= 1 BY <1>9
    <3> QED BY <3>1, <3>2 DEF Progress
  <2> QED BY <1>6, <1>10, <1>11, <1>12, <2>1, <2>3, <2>4 DEF EventsOk
<1>14. Unflipped'
  <2>1. unflip # 0 => unflip <= given /\ asked[unflip] = 0 BY Known DEF Unflipped
  <2>2. unflip # 0 => unflip \in Event BY Known, BoundsAssumption DEF Event
  <2>3. unflip # e BY <1>2, <1>3, Known DEF EventsOk, Events1
  <2>4. unflip # 0 => asked'[unflip] = 0 BY <1>11, <2>1, <2>2, <2>3, Known DEF HistoryOk
  <2>5. unflip # 0 /\ Base'.at \in {"flip", "flipend"} => flip = 0
    BY <1>2, <1>9, <1>10, Known DEF Unflipped
  <2> QED BY <1>6, <2>1, <2>4, <2>5 DEF Unflipped
<1>15. Sane(Armed, timers', Base', Listed', DOMAIN info', Marked', Waiting', First', flip', flipping')
  <2>1. Sane(Armed, timers, b, Listed, D, Marked, Waiting, First, flip, flipping)
    BY <1>2, <1>9 DEF Sane, Placed, MarksOk, WaitsOk, HeadOk, Held
  <2> QED BY <1>6, <1>10, <1>12, <2>1
<1>16. KernelAs(Armed) BY <1>6, Known, KernelSame
<1>17. IInv'
  <2>1. /\ on' \in BOOLEAN /\ flipping' \in BOOLEAN /\ shown' \in BOOLEAN
        /\ hw' \in 0..MaxMsc /\ swap' \in Msc /\ swap' <= hw'
        /\ InfosOk(info') /\ queue' \in Seq(DOMAIN info')
        /\ timers' \subseteq Info /\ flip' \in 0..Infos /\ unflip' \in 0..Events
        /\ Sorted(queue', info')
    BY <1>6, Known
  <2>2. vblanks' = Cardinality(Marked') BY <1>6, <1>12, Known
  <2>3. /\ Base'.at = "complete" /\ on' => Base'.msc <= hw' + 1
        /\ Base'.at = "flip" => Base'.msc <= hw'
    BY <1>2, <1>6, <1>9, <1>10, Known DEF Numbers
  <2> QED BY <1>10, <1>11, <1>13, <1>14, <1>15, <1>16, <2>1, <2>2, <2>3, Together
<1>18. Woken => Woken'
  <2>1. Armed' = Armed BY <1>16 DEF KernelAs
  <2>2. Held(b, {"rearm", "complete"}) = Held(top, {"rearm", "complete"}) BY <1>9 DEF Held
  <2> QED BY <1>2, <1>6, <1>10, <1>12, <2>1, <2>2 DEF Woken
<1> QED BY <1>11, <1>17, <1>18 DEF Kept

\* vblank_complete
LEMMA CompleteNotifyKept == ASSUME IInv, CompleteNotify PROVE Kept
<1> DEFINE b == [top EXCEPT !.n = top.n + 1]
           n == Len(info[top.info].events)
<1>1. /\ top.at = "complete" /\ info[top.info].target <= top.msc /\ top.n < n
      /\ Notify(info[top.info].events[top.n + 1], top.msc) /\ Become(b)
      /\ UNCHANGED <<kernel, swap, vblanks, lists, flip, unflip, client>>
  BY DEF CompleteNotify, Working
<1>2. top.n \in Nat /\ info[top.info].events \in Seq(Event) BY <1>1, WorkFacts
<1>3. top.n + 1 <= n
  <2>1. n \in Nat BY <1>2
  <2> HIDE DEF n, top
  <2> QED BY <1>1, <1>2, <2>1
<1> HIDE DEF b
<1>4. b = [top EXCEPT !.n = top.n + 1] BY DEF b
<1> QED BY <1>1, <1>3, <1>4, TellKept

\* present_flip_handler
LEMMA FlipNotifyKept == ASSUME IInv, FlipNotify PROVE Kept
<1> DEFINE b == [top EXCEPT !.n = top.n + 1]
<1>1. /\ top.at = "flip" /\ top.n = 0
      /\ Notify(info[top.info].events[1], top.msc) /\ Become([top EXCEPT !.n = 1])
      /\ UNCHANGED <<kernel, swap, vblanks, lists, flip, unflip, client>>
  BY DEF FlipNotify, Working
<1>2. top.n + 1 = 1 BY <1>1
<1>3. Notify(info[top.info].events[top.n + 1], top.msc) /\ Become(b)
  <2> HIDE DEF top
  <2> QED BY <1>1, <1>2
<1>4. top.n + 1 <= Len(info[top.info].events)
  <2>1. Sane(Armed, timers, top, Listed, DOMAIN info, Marked, Waiting, First, flip, flipping)
        /\ top.info \in DOMAIN info
    BY <1>1, WorkFacts
  <2>2. top.info \notin Listed BY <1>1, <2>1, HeldFacts DEF Sane, Placed
  <2>3. Len(info[top.info].events) = 1 BY <2>1, <2>2, Known DEF EventsOk, FlipsOk
  <2> QED BY <1>2, <2>3
<1> HIDE DEF b
<1>5. b = [top EXCEPT !.n = top.n + 1] BY DEF b
<1> QED BY <1>1, <1>3, <1>4, <1>5, TellKept

-----------------------------------------------------------------------------
(* The calls of the Present extension.                                       *)

\* The events of a new info are none, or one that is in no info and waits for m.
Fresh(f, es, e, m, u, n, a) ==
  es = <<>> \/ (/\ es = <<e>> /\ a[e] = m /\ e # u /\ e \in Nat /\ 1 <= e /\ e <= n
                /\ \A j \in DOMAIN f : \A l \in 1..Len(f[j].events) : f[j].events[l] # e)

\* There is a new info.
LEMMA NewEvents ==
  ASSUME NEW f, NEW g, InfosOk(f), NEW i, i \notin DOMAIN f, DOMAIN g = DOMAIN f \cup {i},
         \A j \in DOMAIN f : g[j].target = f[j].target /\ g[j].events = f[j].events,
         NEW u, NEW n \in Nat, NEW a, NEW b, NEW Q, NEW R, NEW e,
         Events1(f, u), Pending(f, b, a), Past(f, n), FlipsOk(f, Q),
         Fresh(f, g[i].events, e, g[i].target, u, n, a),
         i \in R \/ (g[i].target = 0 /\ g[i].events = <<e>>), DOMAIN f \ R \subseteq DOMAIN f \ Q
  PROVE  Events1(g, u) /\ Pending(g, b, a) /\ Past(g, n) /\ FlipsOk(g, R)
<1>1. /\ Len(g[i].events) \in Nat /\ Len(g[i].events) <= n
      /\ \A l \in 1..Len(g[i].events) :
           /\ l = 1 /\ g[i].events[l] = e /\ a[e] = g[i].target /\ e # u /\ e <= n
           /\ \A j \in DOMAIN f : \A k \in 1..Len(f[j].events) : f[j].events[k] # e
  <2>1. CASE g[i].events = <<>> BY <2>1
  <2>2. CASE g[i].events # <<>>
    <3>1. g[i].events = <<e>> /\ a[e] = g[i].target /\ e # u /\ e <= n /\ 1 <= e /\ e \in Nat
      BY <2>2 DEF Fresh
    <3>2. Len(<<e>>) = 1 /\ <<e>>[1] = e OBVIOUS
    <3>3. \A j \in DOMAIN f : \A k \in 1..Len(f[j].events) : f[j].events[k] # e
      BY <2>2 DEF Fresh
    <3>4. Len(g[i].events) = 1 /\ g[i].events[1] = e /\ 1 <= n BY <3>1, <3>2
    <3>5. \A l \in 1..Len(g[i].events) : l = 1 BY <3>4
    <3> QED BY <3>1, <3>3, <3>4, <3>5
  <2> QED BY <2>1, <2>2
<1>2. \A j \in DOMAIN g : j = i \/ j \in DOMAIN f OBVIOUS
<1>3. Events1(g, u)
  <2>1. ASSUME NEW j \in DOMAIN g, NEW h \in DOMAIN g,
               NEW k \in 1..Len(g[j].events), NEW l \in 1..Len(g[h].events),
               g[j].events[k] = g[h].events[l]
        PROVE  j = h /\ k = l
    <3>1. CASE j = i /\ h = i BY <1>1, <3>1
    <3>2. CASE j = i /\ h # i BY <1>1, <1>2, <2>1, <3>2
    <3>3. CASE j # i /\ h = i BY <1>1, <1>2, <2>1, <3>3
    <3>4. CASE j # i /\ h # i BY <1>2, <2>1, <3>4 DEF Events1
    <3> QED BY <3>1, <3>2, <3>3, <3>4
  <2>2. ASSUME NEW j \in DOMAIN g, NEW k \in 1..Len(g[j].events) PROVE g[j].events[k] # u
    BY <1>1, <1>2 DEF Events1
  <2> QED BY <2>1, <2>2 DEF Events1
<1>4. Pending(g, b, a) BY <1>1, <1>2 DEF Pending
<1>5. Past(g, n) BY <1>1, <1>2 DEF Past
<1>6. FlipsOk(g, R)
  <2>1. ASSUME NEW j \in DOMAIN g \ R PROVE g[j].target = 0 /\ Len(g[j].events) = 1
    <3>1. CASE j = i
      <4>1. g[i].events = <<e>> /\ g[i].target = 0 BY <2>1, <3>1
      <4>2. Len(<<e>>) = 1 OBVIOUS
      <4> QED BY <2>1, <3>1, <4>1, <4>2
    <3>2. CASE j # i BY <1>2, <2>1, <3>2 DEF FlipsOk
    <3> QED BY <3>1, <3>2
  <2> QED BY <2>1 DEF FlipsOk
<1> QED BY <1>3, <1>4, <1>5, <1>6

\* A new info is put into the queue.
LEMMA ListAddFacts ==
  ASSUME IInv, NEW i \in Info, i \notin DOMAIN info, NEW m \in Msc,
         InfosOk(info'), DOMAIN info' = DOMAIN info \cup {i}, info'[i].target = m,
         \A j \in DOMAIN info : info'[j].target = info[j].target,
         InQueue(m) = {}, ListAdd(i, m)
  PROVE  /\ queue' \in Seq(DOMAIN info') /\ Sorted(queue', info') /\ Listed' = Listed \cup {i}
         /\ First' = i \/ First' = First
         /\ ~Before(1, m) => First' = First /\ First # i
<1> DEFINE f == info'
           D == DOMAIN info'
           n == Len(queue)
<1>1. queue \in Seq(DOMAIN info) /\ Sorted(queue, info) BY Known
<1>2. queue \in Seq(D) /\ \A k \in 1..n : queue[k] \in DOMAIN info
  <2>1. Members(queue) \subseteq D BY <1>1 DEF Members
  <2> QED BY <1>1, <2>1, SeqIn
<1>3. Sorted(queue, f) BY <1>2, <1>1 DEF Sorted
<1>4. \A j \in D : f[j].target \in Int
  <2>1. \A j \in D : f[j].target \in Msc BY DEF InfosOk, InfoRec
  <2> QED BY <2>1, NoneIsNone
<1>5. \A k \in 1..n : f[queue[k]].target # m
  <2>1. ASSUME NEW k \in 1..n, info[queue[k]].target = m PROVE FALSE
    <3>1. Contains(queue, queue[k]) BY DEF Contains
    <3>2. queue[k] \in InQueue(m) BY <1>2, <2>1, <3>1 DEF InQueue
    <3> QED BY <3>2
  <2> QED BY <1>2, <2>1
<1>6. PICK p \in 1..(n + 1) : Before(p, m) /\ queue' = InsertAt(queue, p, i) BY DEF ListAdd
<1>7. \A k \in 1..(p - 1) : f[queue[k]].target <= f[i].target
  <2>1. \A k \in 1..(p - 1) : info[queue[k]].target <= m BY <1>6 DEF Before
  <2>2. n \in Nat BY <1>1
  <2>3. \A k \in 1..(p - 1) : k \in 1..n
    <3> HIDE DEF n
    <3> QED BY <2>2
  <2> QED BY <1>2, <2>1, <2>3
<1>8. p <= n => f[i].target < f[queue[p]].target
  <2>1. p <= n => m < info[queue[p]].target BY <1>6 DEF Before
  <2>2. p <= n => p \in 1..n BY <1>1
  <2> QED BY <1>2, <2>1, <2>2
<1>9. /\ queue' \in Seq(D) /\ Sorted(queue', f)
      /\ Members(queue') = Members(queue) \cup {i}
      /\ FirstOf(queue') = IF p = 1 THEN i ELSE FirstOf(queue)
      /\ i \notin Members(queue)
  <2> DEFINE q == InsertAt(queue, p, i)
  <2>1. i \in D OBVIOUS
  <2> HIDE DEF f, D
  <2>2. /\ q \in Seq(D) /\ Sorted(q, f)
        /\ Members(q) = Members(queue) \cup {i}
        /\ FirstOf(q) = IF p = 1 THEN i ELSE FirstOf(queue)
        /\ i \notin Members(queue)
    <3>1. \A k \in 1..Len(queue) : f[queue[k]].target # f[i].target BY <1>5 DEF f
    <3> QED BY <1>2, <1>3, <1>4, <1>6, <1>7, <1>8, <2>1, <3>1, InsertSorted
  <2> HIDE DEF q
  <2>3. queue' = q BY <1>6 DEF q
  <2> QED BY <2>2, <2>3
<1>10. ASSUME ~Before(1, m) PROVE First' = First /\ First # i
  <2>1. p # 1 BY <1>6, <1>10
  <2>2. First' = First BY <1>9, <2>1 DEF First
  <2>3. n >= 1 BY <1>1, <1>6, <2>1
  <2>4. queue # <<>> /\ 1 \in DOMAIN queue BY <1>1, <2>3
  <2>5. First \in Members(queue) BY <2>4 DEF First, FirstOf, Members
  <2> QED BY <1>9, <2>2, <2>5
<1>11. First' = i \/ First' = First BY <1>9 DEF First
<1>12. Listed' = Listed \cup {i} BY <1>9 DEF Listed
<1> QED BY <1>9, <1>10, <1>11, <1>12

\* The extension asks for a frame.
LEMMA AskedFacts ==
  ASSUME IInv, NEW e \in Event, NEW m \in Msc, Gives(e), Asks(e, m)
  PROVE  /\ HistoryOk' /\ Promised /\ given' = e /\ given' \in Nat
         /\ Pending(info, Base, asked') /\ Past(info, given') /\ asked'[e] = m
         /\ Fresh(info, <<e>>, e, m, unflip, given', asked')
         /\ \A j \in DOMAIN info : \A l \in 1..Len(info[j].events) : info[j].events[l] # e
         /\ unflip # 0 => unflip <= given' /\ asked'[unflip] = 0 /\ unflip # e
         /\ unflip # e /\ e = given + 1
<1>1. HistoryOk' /\ Promised /\ asked' = [asked EXCEPT ![e] = m] /\ given' = e /\ e = given + 1
  BY Known, AsksFacts
<1>2. e \in Nat /\ 1 <= e /\ e \in Int BY BoundsAssumption DEF Event
<1>3. /\ asked \in [Event -> Msc \cup {None}] /\ given \in Int
      /\ Pending(info, Base, asked) /\ Past(info, given)
      /\ \A j \in DOMAIN info : info[j].events \in Seq(Event)
  BY Known DEF EventsOk, HistoryOk, InfosOk, InfoRec
<1>4. /\ Pending(info, Base, [asked EXCEPT ![e] = m]) /\ Past(info, e)
      /\ \A j \in DOMAIN info : \A l \in 1..Len(info[j].events) : info[j].events[l] # e
  BY <1>1, <1>3, AskElsewhere
<1>5. asked'[e] = m BY <1>1, <1>3
<1>6. unflip # 0 => unflip <= given /\ asked[unflip] = 0 /\ unflip \in Event
  BY Known, BoundsAssumption DEF Unflipped, Event
<1>7. unflip # 0 => unflip <= e /\ unflip # e BY <1>1, <1>3, <1>6 DEF Event
<1>8. unflip # 0 => asked'[unflip] = 0 BY <1>1, <1>3, <1>6, <1>7
<1>9. unflip # e BY <1>2, <1>7
<1>10. e <= e BY <1>2
<1>11. Fresh(info, <<e>>, e, m, unflip, given', asked')
  BY <1>1, <1>2, <1>4, <1>5, <1>9, <1>10 DEF Fresh
<1> QED BY <1>1, <1>2, <1>4, <1>5, <1>7, <1>8, <1>9, <1>11

\* An info is added to the queue.
LEMMA QueueSteps ==
  ASSUME IInv, UNCHANGED <<on, hw, flipping, swap, flip, unflip, shown>>,
         NEW i \in Info, i \notin DOMAIN info, NEW m \in Msc,
         InfosOk(info'), DOMAIN info' = DOMAIN info \cup {i}, info'[i].target = m,
         \A j \in DOMAIN info : /\ info'[j].target = info[j].target /\ info'[j].events = info[j].events
                                /\ info'[j].marked <=> info[j].marked
                                /\ info'[j].queued <=> info[j].queued,
         InQueue(m) = {}, ListAdd(i, m),
         stack' \in Seq(Frame), Shape', Aside,
         NEW A, KernelAs(A),
         \/ A = Armed \cup {i} /\ timers' = timers /\ info'[i].queued
         \/ A = Armed /\ timers' = timers \cup {i} /\ info'[i].queued /\ ~info'[i].marked
         \/ A = Armed /\ timers' = timers /\ ~info'[i].queued /\ ~info'[i].marked /\ ~Before(1, m),
         vblanks' = vblanks + (IF info'[i].marked THEN 1 ELSE 0),
         HistoryOk', Promised, given' \in Nat, Pending(info, Base, asked'), Past(info, given'),
         NEW e, Fresh(info, info'[i].events, e, m, unflip, given', asked'),
         unflip # 0 => unflip <= given' /\ asked'[unflip] = 0
  PROVE  Kept
<1> DEFINE D == DOMAIN info
<1>1. Sane(Armed, timers, Base, Listed, D, Marked, Waiting, First, flip, flipping)
  BY Known DEF Places
<1>2. /\ queue' \in Seq(DOMAIN info') /\ Sorted(queue', info') /\ Listed' = Listed \cup {i}
      /\ First' = i \/ First' = First
      /\ ~Before(1, m) => First' = First /\ First # i
  BY ListAddFacts
<1>3. Listed \subseteq D /\ i \notin Listed /\ i # 0
  BY <1>1, BoundsAssumption DEF Sane, Placed, Info
<1>4. i \notin Armed /\ i \notin timers /\ i # flip /\ i \notin Marked
      /\ i \notin Held(Base, {"rearm", "complete"}) /\ i \notin Held(Base, {"flip", "flipend"})
      /\ i \notin Held(Base, {"rearm"})
  <2>1. i \notin timers /\ i # flip
        /\ i \notin Held(Base, {"rearm", "complete"}) /\ i \notin Held(Base, {"flip", "flipend"})
    BY <1>1, <1>3 DEF Sane, Placed
  <2>2. i \notin Armed BY <1>1, <1>3, <2>1 DEF Sane, Placed
  <2>3. i \notin Held(Base, {"rearm"}) BY <2>1, HeldFacts
  <2> QED BY <2>1, <2>2, <2>3 DEF Marked
<1>5. Marked' = IF info'[i].marked THEN Marked \cup {i} ELSE Marked BY DEF Marked
<1>6. Waiting' = IF info'[i].queued THEN Waiting ELSE Waiting \cup {i}
  <2>1. Waiting' = {j \in Listed \cup {i} : ~info'[j].queued} BY <1>2 DEF Waiting
  <2> QED BY <1>3, <2>1 DEF Waiting
<1>7. vblanks' = Cardinality(Marked')
  <2>1. vblanks = Cardinality(Marked) /\ InfosOk(info) BY Known
  <2>2. Cardinality(Marked \cup {i}) = Cardinality(Marked) + 1 /\ Cardinality(Marked) \in Nat
    BY <1>4, <2>1, CountFacts
  <2> QED BY <1>5, <2>1, <2>2
<1>8. Sane(A, timers', Base, Listed', DOMAIN info', Marked', Waiting', First', flip, flipping)
  <2>1. Waiting \subseteq Listed BY DEF Waiting
  <2>2. CASE A = Armed \cup {i} /\ timers' = timers /\ info'[i].queued
    <3>1. Placed(Armed \cup {i}, timers, Base, Listed \cup {i}, D \cup {i}, flip, flipping)
      BY <1>1, <1>3, <1>4 DEF Sane, Placed
    <3>2. MarksOk(Armed \cup {i}, Base, Marked', flip) BY <1>1, <1>5 DEF Sane, MarksOk
    <3>3. WaitsOk(Armed \cup {i}, timers, Base, Waiting) BY <1>1, <1>3, <2>1 DEF Sane, WaitsOk
    <3>4. HeadOk(Base, Waiting, First') BY <1>1, <1>2, <1>3, <2>1 DEF Sane, HeadOk
    <3> QED BY <1>2, <1>6, <2>2, <3>1, <3>2, <3>3, <3>4 DEF Sane
  <2>3. CASE A = Armed /\ timers' = timers \cup {i} /\ info'[i].queued /\ ~info'[i].marked
    <3>1. Placed(Armed, timers \cup {i}, Base, Listed \cup {i}, D \cup {i}, flip, flipping)
      BY <1>1, <1>3, <1>4 DEF Sane, Placed
    <3>2. MarksOk(Armed, Base, Marked', flip) BY <1>1, <1>5, <2>3 DEF Sane, MarksOk
    <3>3. WaitsOk(Armed, timers \cup {i}, Base, Waiting) BY <1>1, <1>3, <2>1 DEF Sane, WaitsOk
    <3>4. HeadOk(Base, Waiting, First') BY <1>1, <1>2, <1>3, <2>1 DEF Sane, HeadOk
    <3> QED BY <1>2, <1>6, <2>3, <3>1, <3>2, <3>3, <3>4 DEF Sane
  <2>4. CASE A = Armed /\ timers' = timers /\ ~info'[i].queued /\ ~info'[i].marked /\ ~Before(1, m)
    <3>1. Placed(Armed, timers, Base, Listed \cup {i}, D \cup {i}, flip, flipping)
      BY <1>1, <1>3, <1>4 DEF Sane, Placed
    <3>2. MarksOk(Armed, Base, Marked', flip) BY <1>1, <1>5, <2>4 DEF Sane, MarksOk
    <3>3. WaitsOk(Armed, timers, Base, Waiting \cup {i}) BY <1>1, <1>4 DEF Sane, WaitsOk
    <3>4. HeadOk(Base, Waiting \cup {i}, First') BY <1>1, <1>2, <2>4 DEF Sane, HeadOk
    <3> QED BY <1>2, <1>6, <2>4, <3>1, <3>2, <3>3, <3>4 DEF Sane
  <2> QED BY <2>2, <2>3, <2>4
<1>9. Sane(A, timers', Base', Listed', DOMAIN info', Marked', Waiting', First', flip', flipping')
  BY <1>8, AsideSame
<1>10. EventsOk'
  <2>1. Events1(info, unflip) /\ FlipsOk(info, Listed) /\ Progress(info, Base)
    BY Known DEF EventsOk
  <2>2. /\ Events1(info', unflip) /\ Pending(info', Base, asked') /\ Past(info', given')
        /\ FlipsOk(info', Listed')
    <3> DEFINE g == info'
               a == asked'
               n == given'
               R == Listed'
    <3>1. i \in R /\ DOMAIN info \ R \subseteq DOMAIN info \ Listed BY <1>2
    <3>2. InfosOk(info) BY Known
    <3>3. \A j \in DOMAIN info : g[j].target = info[j].target /\ g[j].events = info[j].events OBVIOUS
    <3>4. DOMAIN g = DOMAIN info \cup {i} /\ Fresh(info, g[i].events, e, g[i].target, unflip, n, a)
          /\ n \in Nat /\ Pending(info, Base, a) /\ Past(info, n)
      OBVIOUS
    <3> HIDE DEF g, a, n, R
    <3>5. Events1(g, unflip) /\ Pending(g, Base, a) /\ Past(g, n) /\ FlipsOk(g, R)
      BY <2>1, <3>1, <3>2, <3>3, <3>4, NewEvents
    <3> QED BY <3>5 DEF g, a, n, R
  <2>3. Pending(info', Base', asked') BY <2>2, AsideSame DEF Pending
  <2>4. Progress(info', Base)
    <3>1. Base.at \in {"complete", "flip"} => Base.info \in D
      BY <1>1, HeldFacts DEF Sane, Placed
    <3> QED BY <2>1, <3>1 DEF Progress
  <2>5. Progress(info', Base') BY <2>4, AsideSame
  <2> QED BY <2>2, <2>3, <2>5 DEF EventsOk
<1>11. Base'.at \in {"complete", "flip", "flipend"} => Base' = Base BY AsideSame
<1>12. Unflipped' BY <1>11, Known DEF Unflipped
<1>13. IInv'
  <2>1. /\ on' \in BOOLEAN /\ flipping' \in BOOLEAN /\ shown' \in BOOLEAN
        /\ hw' \in 0..MaxMsc /\ swap' \in Msc /\ swap' <= hw'
        /\ flip' \in 0..Infos /\ unflip' \in 0..Events
    BY Known
  <2>2. timers' \subseteq Info BY Known
  <2>3. /\ Base'.at = "complete" /\ on' => Base'.msc <= hw' + 1
        /\ Base'.at = "flip" => Base'.msc <= hw'
    BY <1>11, Known DEF Numbers
  <2> QED BY <1>2, <1>7, <1>9, <1>10, <1>12, <2>1, <2>2, <2>3, Together
<1>14. Woken => Woken'
  <2>1. Armed' = A BY DEF KernelAs
  <2>2. Held(Base', {"rearm", "complete"}) = Held(Base, {"rearm", "complete"}) BY AsideSame
  <2> QED BY <1>2, <1>6, <2>1, <2>2 DEF Woken
<1> QED BY <1>13, <1>14 DEF Kept

\* The count is a number.
LEMMA CountIsNat == ASSUME IInv PROVE vblanks \in Nat
BY DEF IInv, TypeOK

\* info_alloc gives an info that is in no use.
LEMMA NewFacts ==
  ASSUME IInv, NEW i \in Info, Alloc(i), NEW r \in InfoRec
  PROVE  /\ i \notin DOMAIN info /\ InfosOk(With(info, i, r))
         /\ DOMAIN With(info, i, r) = DOMAIN info \cup {i} /\ With(info, i, r)[i] = r
         /\ \A j \in DOMAIN info : With(info, i, r)[j] = info[j]
<1>1. i \notin DOMAIN info BY DEF Alloc, Spare
<1>2. InfosOk(info) BY Known
<1>3. /\ InfosOk(With(info, i, r)) /\ DOMAIN With(info, i, r) = DOMAIN info \cup {i}
      /\ With(info, i, r)[i] = r
      /\ \A j \in DOMAIN info : j # i => With(info, i, r)[j] = info[j]
  BY <1>2, WithFacts
<1> QED BY <1>1, <1>3

\* There is one info more.
LEMMA AddedFacts ==
  ASSUME IInv, NEW i \in Info, Alloc(i), NEW r \in InfoRec, info' = With(info, i, r)
  PROVE  /\ i \notin DOMAIN info /\ InfosOk(info') /\ DOMAIN info' = DOMAIN info \cup {i}
         /\ info'[i] = r
         /\ \A j \in DOMAIN info : /\ info'[j].target = info[j].target
                                   /\ info'[j].events = info[j].events
                                   /\ info'[j].marked <=> info[j].marked
                                   /\ info'[j].queued <=> info[j].queued
<1> DEFINE w == With(info, i, r)
<1>1. /\ i \notin DOMAIN info /\ InfosOk(w) /\ DOMAIN w = DOMAIN info \cup {i} /\ w[i] = r
      /\ \A j \in DOMAIN info : w[j] = info[j]
  BY NewFacts
<1>2. info' = w OBVIOUS
<1> HIDE DEF w
<1>3. \A j \in DOMAIN info : info'[j] = info[j] BY <1>1, <1>2
<1>4. InfosOk(info') /\ DOMAIN info' = DOMAIN info \cup {i} /\ info'[i] = r BY <1>1, <1>2
<1> QED BY <1>1, <1>3, <1>4

\* add_keepalive, with an info that is spare.
LEMMA KeepAliveAdds ==
  ASSUME IInv, top.at = "keepalive", InQueue(top.msc) = {}, NEW i \in Info, Alloc(i),
         WaitVblank(i, top.msc), info' = With(info, i, NewInfo(top.msc, <<>>, TRUE, TRUE)),
         ListAdd(i, top.msc), vblanks' = vblanks + 1, Leave,
         UNCHANGED <<swap, timers, flip, unflip, client, history>>
  PROVE  Kept
<1> DEFINE m == top.msc
           r == NewInfo(m, <<>>, TRUE, TRUE)
<1>1. m \in Msc
  <2>1. top \in Frame BY Known, StackFacts
  <2> HIDE DEF top
  <2> QED BY <2>1 DEF Frame
<1>2. InQueue(m) = {} /\ WaitVblank(i, m) /\ ListAdd(i, m) /\ info' = With(info, i, r) OBVIOUS
<1> HIDE DEF m
<1>3. r \in InfoRec /\ r.target = m /\ r.events = <<>> /\ r.queued /\ r.marked
  BY <1>1 DEF NewInfo, InfoRec
<1> HIDE DEF r
<1>4. /\ i \notin DOMAIN info /\ InfosOk(info') /\ DOMAIN info' = DOMAIN info \cup {i} /\ info'[i] = r
      /\ \A j \in DOMAIN info : /\ info'[j].target = info[j].target /\ info'[j].events = info[j].events
                                /\ info'[j].marked <=> info[j].marked
                                /\ info'[j].queued <=> info[j].queued
  BY <1>2, <1>3, AddedFacts
<1>14. /\ info'[i].target = m /\ info'[i].events = <<>> /\ info'[i].queued /\ info'[i].marked
  BY <1>3, <1>4
<1>5. stack' \in Seq(Frame) /\ Shape' /\ Aside BY Known, KeepAliveLeft
<1>6. i \notin Armed
  <2>1. Armed \subseteq DOMAIN info BY Known DEF Places, Sane, Placed
  <2> QED BY <1>4, <2>1
<1>7. KernelAs(Armed \cup {i}) /\ UNCHANGED <<on, hw, flipping>>
  BY <1>1, <1>2, <1>6, Known, WaitFacts
<1>8. UNCHANGED <<given, shown, asked, told>> BY DEF client, history
<1>9. HistoryOk' /\ Promised BY <1>8, Known, NothingTold
<1>10. Pending(info, Base, asked') /\ Past(info, given') BY <1>8, Known DEF EventsOk
<1>11. Fresh(info, info'[i].events, 0, m, unflip, given', asked') BY <1>14 DEF Fresh
<1>12. unflip # 0 => unflip <= given' /\ asked'[unflip] = 0 BY <1>8, Known DEF Unflipped
<1>13. given' \in Nat BY <1>8, Known
<1>15. UNCHANGED <<on, hw, flipping, swap, flip, unflip, shown>> BY <1>7, <1>8
<1>16. vblanks' = vblanks + (IF info'[i].marked THEN 1 ELSE 0) BY <1>14
<1> DEFINE A == Armed \cup {i}
<1>17. A = Armed \cup {i} /\ timers' = timers /\ info'[i].queued BY <1>14
<1>18. KernelAs(A) BY <1>7
<1> HIDE DEF A
<1> QED
  BY <1>1, <1>2, <1>4, <1>5, <1>9, <1>10, <1>11, <1>12, <1>13, <1>14, <1>15, <1>16, <1>17, <1>18,
     QueueSteps

\* add_keepalive returns, with nothing done.
LEMMA KeepAliveNone ==
  ASSUME IInv, top.at = "keepalive", UNCHANGED <<kernel, info, queue, vblanks>>, Leave,
         UNCHANGED <<swap, timers, flip, unflip, client, history>>
  PROVE  Kept
<1>3. stack' \in Seq(Frame) /\ Shape' /\ Aside BY Known, KeepAliveLeft
<1>4. /\ UNCHANGED <<on, hw, requests, fd, flipping, info, queue>>
      /\ timers' = timers /\ flip' = flip /\ vblanks' = vblanks
  BY DEF kernel
<1>5. KernelAs(Armed) BY <1>4, Known, KernelSame
<1>6. Listed' = Listed /\ Marked' = Marked /\ Waiting' = Waiting /\ First' = First
  BY <1>4, ListsSame
<1>7. Within(info', info) /\ InfosOk(info') /\ queue' \in Seq(DOMAIN info') /\ Sorted(queue', info')
  BY <1>4, Known, WithinSelf
<1>8. Sane(Armed, timers', Base', Listed', DOMAIN info', Marked', Waiting', First', flip', flipping')
  <2>1. Sane(Armed, timers, Base, Listed, DOMAIN info, Marked, Waiting, First, flip, flipping)
    BY Known DEF Places
  <2>2. Sane(Armed, timers, Base', Listed, DOMAIN info, Marked, Waiting, First, flip, flipping)
    BY <1>3, <2>1, AsideSame
  <2> QED BY <1>4, <1>6, <2>2
<1>9. Woken => Listed' \ Waiting' \subseteq Armed \cup timers' \cup Held(Base', {"rearm", "complete"})
  BY <1>3, <1>4, <1>6, AsideSame DEF Woken
<1>10. /\ \A i \in DOMAIN info' : \A k \in 1..Len(info'[i].events) :
            Done(Base, i, k) => Done(Base', i, k)
       /\ Progress(info', Base')
  <2>1. Progress(info, Base) BY Known DEF EventsOk
  <2>2. Progress(info', Base') BY <1>3, <1>4, <2>1, AsideSame
  <2> QED BY <1>3, <2>2, AsideSame
<1>11. /\ Base'.at = "complete" /\ on => Base'.msc <= hw + 1
       /\ Base'.at = "flip" => Base'.msc <= hw
       /\ unflip # 0 /\ Base'.at \in {"flip", "flipend"} => flip' = 0
  <2>1. Base'.at \in {"complete", "flip", "flipend"} => Base' = Base BY <1>3, AsideSame
  <2>2. Numbers /\ Unflipped BY Known
  <2> QED BY <1>4, <2>1, <2>2 DEF Numbers, Unflipped
<1>12. swap' \in Msc /\ swap' <= hw BY Known
<1>13. flipping' \in BOOLEAN /\ timers' \subseteq Info /\ flip' \in 0..Infos BY <1>4, Known
<1>14. vblanks' = Cardinality(Marked') BY <1>4, <1>6, Known
<1>15. UNCHANGED <<on, hw, unflip, client, history>> BY <1>4
<1>16. DOMAIN info' \ Listed' \subseteq DOMAIN info \ Listed BY <1>4, <1>6
<1> QED BY <1>3, <1>5, <1>7, <1>8, <1>9, <1>10, <1>11, <1>12, <1>13, <1>14, <1>15, <1>16, QuietSteps

\* add_keepalive
LEMMA KeepAliveKept == ASSUME IInv, KeepAlive PROVE Kept
<1>1. /\ top.at = "keepalive" /\ Leave
      /\ UNCHANGED <<swap, timers, flip, unflip, client, history>>
  BY DEF KeepAlive, Working
<1>2. CASE InQueue(top.msc) = {} /\ on /\ Spare # {}
  <2>1. PICK i \in Info :
          /\ Alloc(i) /\ WaitVblank(i, top.msc)
          /\ info' = With(info, i, NewInfo(top.msc, <<>>, TRUE, TRUE))
          /\ ListAdd(i, top.msc) /\ vblanks' = vblanks + 1
    BY <1>2 DEF KeepAlive
  <2> QED BY <1>1, <1>2, <2>1, KeepAliveAdds
<1>3. CASE ~ (InQueue(top.msc) = {} /\ on /\ Spare # {})
  <2>1. UNCHANGED <<kernel, info, queue, vblanks>> BY <1>3 DEF KeepAlive
  <2> QED BY <1>1, <2>1, KeepAliveNone
<1> QED BY <1>2, <1>3

\* sna_present_queue_vblank, after another one.
LEMMA BehindKept ==
  ASSUME IInv, NEW e \in Event, NEW m \in Msc, QueueBehind(e, m) PROVE Kept
<1>1. /\ InQueue(m) = {} /\ ~Before(1, m) /\ Gives(e) /\ Asks(e, m)
      /\ UNCHANGED <<kernel, swap, vblanks, timers, flip, unflip, stack, shown>>
  BY DEF QueueBehind
<1> DEFINE r == NewInfo(m, <<e>>, FALSE, FALSE)
<1>2. PICK i \in Info : Alloc(i) /\ ListAdd(i, m) /\ info' = With(info, i, r)
  BY DEF QueueBehind
<1>3. r \in InfoRec /\ r.target = m /\ r.events = <<e>> /\ ~r.queued /\ ~r.marked
  BY DEF NewInfo, InfoRec
<1> HIDE DEF r
<1>4. /\ i \notin DOMAIN info /\ InfosOk(info') /\ DOMAIN info' = DOMAIN info \cup {i} /\ info'[i] = r
      /\ \A j \in DOMAIN info : /\ info'[j].target = info[j].target /\ info'[j].events = info[j].events
                                /\ info'[j].marked <=> info[j].marked
                                /\ info'[j].queued <=> info[j].queued
  BY <1>2, <1>3, AddedFacts
<1>14. /\ info'[i].target = m /\ info'[i].events = <<e>> /\ ~info'[i].queued /\ ~info'[i].marked
  BY <1>3, <1>4
<1>5. stack' \in Seq(Frame) /\ Shape' /\ Aside BY <1>1, Known DEF Shape, Base, Aside
<1>6. UNCHANGED <<on, hw, requests, fd, flipping>> BY <1>1 DEF kernel
<1>7. KernelAs(Armed) BY <1>6, Known, KernelSame
<1>8. /\ HistoryOk' /\ Promised /\ given' \in Nat
      /\ Pending(info, Base, asked') /\ Past(info, given')
      /\ Fresh(info, <<e>>, e, m, unflip, given', asked')
      /\ unflip # 0 => unflip <= given' /\ asked'[unflip] = 0
  BY <1>1, AskedFacts
<1>9. Fresh(info, info'[i].events, e, m, unflip, given', asked') BY <1>14, <1>8
<1>15. UNCHANGED <<on, hw, flipping, swap, flip, unflip, shown>> BY <1>1, <1>6
<1>16. vblanks' = vblanks + (IF info'[i].marked THEN 1 ELSE 0)
  <2>1. vblanks \in Int BY CountIsNat
  <2> QED BY <1>1, <1>14, <2>1
<1> DEFINE A == Armed
<1>17. A = Armed /\ timers' = timers /\ ~info'[i].queued /\ ~info'[i].marked /\ ~Before(1, m)
  BY <1>1, <1>14
<1>18. KernelAs(A) BY <1>7
<1> HIDE DEF A
<1> QED
  BY <1>1, <1>2, <1>4, <1>5, <1>8, <1>9, <1>14, <1>15, <1>16, <1>17, <1>18, QueueSteps

\* An event more for an info of the queue.
LEMMA AppendedFacts ==
  ASSUME InfosOk(info), NEW i \in DOMAIN info, NEW e \in Event,
         info' = [info EXCEPT ![i].events = Append(@, e)]
  PROVE  /\ InfosOk(info') /\ DOMAIN info' = DOMAIN info
         /\ info'[i].events = Append(info[i].events, e)
         /\ \A j \in DOMAIN info : /\ info'[j].target = info[j].target
                                   /\ j # i => info'[j].events = info[j].events
                                   /\ info'[j].marked <=> info[j].marked
                                   /\ info'[j].queued <=> info[j].queued
<1> DEFINE es == Append(info[i].events, e)
           x == [info[i] EXCEPT !.events = es]
<1>1. info' = [info EXCEPT ![i] = x] OBVIOUS
<1>2. info[i] \in InfoRec /\ info[i].events \in Seq(Event) /\ es \in Seq(Event) BY DEF InfosOk, InfoRec
<1> HIDE DEF es
<1>3. /\ x \in InfoRec /\ x.target = info[i].target /\ x.events = es
      /\ x.marked <=> info[i].marked
      /\ x.queued <=> info[i].queued
  BY <1>2 DEF InfoRec
<1> HIDE DEF x
<1>4. DOMAIN info' = DOMAIN info /\ info'[i] = x /\ \A j \in DOMAIN info : j # i => info'[j] = info[j]
  BY <1>1
<1>5. InfosOk(info') BY <1>3, <1>4 DEF InfosOk
<1> QED BY <1>3, <1>4, <1>5 DEF es

\* It is in no other one, and waits for the frame of the info.
LEMMA AppendEvents ==
  ASSUME NEW f, NEW g, NEW i \in DOMAIN f, DOMAIN g = DOMAIN f, NEW e \in Int,
         \A j \in DOMAIN f : f[j].events \in Seq(Event),
         g[i].events = Append(f[i].events, e),
         \A j \in DOMAIN f : g[j].target = f[j].target /\ (j # i => g[j].events = f[j].events),
         NEW u, NEW n \in Int, NEW a, NEW b, NEW Q,
         Events1(f, u), Pending(f, b, a), Past(f, n), FlipsOk(f, Q), Progress(f, b),
         b.at \in {"complete", "flip"} => b.info \in DOMAIN f /\ b.n \in Nat,
         i \in Q, e # u, e = n + 1, a[e] = f[i].target,
         \A j \in DOMAIN f : \A l \in 1..Len(f[j].events) : f[j].events[l] # e
  PROVE  Events1(g, u) /\ Pending(g, b, a) /\ Past(g, e) /\ FlipsOk(g, Q) /\ Progress(g, b)
<1> DEFINE es == f[i].events
           p == Len(es)
<1>1. /\ p \in Nat /\ Len(g[i].events) = p + 1 /\ g[i].events[p + 1] = e
      /\ \A l \in 1..p : g[i].events[l] = es[l]
  <2> DEFINE x == g[i].events
  <2>1. es \in Seq(Event) OBVIOUS
  <2>2. x = Append(es, e) OBVIOUS
  <2> HIDE DEF es, x
  <2>3. Len(es) \in Nat /\ Len(x) = Len(es) + 1 /\ x[Len(es) + 1] = e BY <2>1, <2>2
  <2>4. \A l \in 1..Len(es) : x[l] = es[l] BY <2>1, <2>2
  <2> QED BY <2>3, <2>4 DEF x
<1> HIDE DEF p
<1>2. \A l \in 1..(p + 1) : l = p + 1 \/ l \in 1..p BY <1>1
<1>3. p = Len(f[i].events) BY DEF p
<1> HIDE DEF es
<1>4. ASSUME NEW j \in DOMAIN g, NEW l \in 1..Len(g[j].events)
      PROVE  \/ j = i /\ l = p + 1 /\ g[j].events[l] = e
             \/ l \in 1..Len(f[j].events) /\ g[j].events[l] = f[j].events[l]
  BY <1>1, <1>2, <1>3 DEF es
<1>5. Events1(g, u)
  <2>1. ASSUME NEW j \in DOMAIN g, NEW h \in DOMAIN g,
               NEW k \in 1..Len(g[j].events), NEW l \in 1..Len(g[h].events),
               g[j].events[k] = g[h].events[l]
        PROVE  j = h /\ k = l
    <3>1. CASE j = i /\ k = p + 1 /\ g[j].events[k] = e BY <1>4, <2>1, <3>1
    <3>2. CASE k \in 1..Len(f[j].events) /\ g[j].events[k] = f[j].events[k]
      <4>1. l \in 1..Len(f[h].events) /\ g[h].events[l] = f[h].events[l] BY <1>4, <2>1, <3>2
      <4>2. f[j].events[k] = f[h].events[l] /\ j \in DOMAIN f /\ h \in DOMAIN f BY <2>1, <3>2, <4>1
      <4>3. \A x, y \in DOMAIN f : \A v \in 1..Len(f[x].events), z \in 1..Len(f[y].events) :
              f[x].events[v] = f[y].events[z] => x = y /\ v = z
        BY DEF Events1
      <4> HIDE DEF p
      <4> QED BY <3>2, <4>1, <4>2, <4>3
    <3> QED BY <1>4, <3>1, <3>2
  <2>2. \A j \in DOMAIN g : \A l \in 1..Len(g[j].events) : g[j].events[l] # u
    BY <1>4 DEF Events1
  <2> QED BY <2>1, <2>2 DEF Events1
<1>6. Pending(g, b, a) BY <1>4 DEF Pending
<1>7. Past(g, e)
  <2>1. \A j \in DOMAIN f : Len(f[j].events) \in Nat /\ Len(f[j].events) <= n BY DEF Past
  <2>2. \A j \in DOMAIN g : Len(g[j].events) <= e BY <1>1, <1>3, <2>1
  <2>3. ASSUME NEW j \in DOMAIN g, NEW l \in 1..Len(g[j].events) PROVE g[j].events[l] <= e
    <3>1. CASE g[j].events[l] = e BY <3>1
    <3>2. CASE l \in 1..Len(f[j].events) /\ g[j].events[l] = f[j].events[l]
      <4>1. f[j].events[l] <= n /\ f[j].events[l] \in Event BY <3>2 DEF Past
      <4> QED BY <3>2, <4>1 DEF Event
    <3> QED BY <1>4, <3>1, <3>2
  <2> QED BY <2>2, <2>3 DEF Past
<1>8. FlipsOk(g, Q) BY DEF FlipsOk
<1>9. Progress(g, b)
  <2>1. ASSUME b.at \in {"complete", "flip"}, b.n <= Len(f[b.info].events)
        PROVE  b.n <= Len(g[b.info].events)
    <3>1. CASE b.info = i BY <1>1, <1>3, <2>1, <3>1
    <3>2. CASE b.info # i BY <2>1, <3>2
    <3> QED BY <3>1, <3>2
  <2> QED BY <2>1 DEF Progress
<1> QED BY <1>5, <1>6, <1>7, <1>8, <1>9

\* sna_present_queue_vblank of a frame that others wait for.
LEMMA AppendKept == ASSUME IInv, NEW e \in Event, NEW m \in Msc, QueueAppend(e, m) PROVE Kept
<1>1. /\ Gives(e) /\ Asks(e, m)
      /\ UNCHANGED <<kernel, swap, vblanks, queue, timers, flip, unflip, stack, shown>>
  BY DEF QueueAppend
<1>2. PICK i \in InQueue(m) : info' = [info EXCEPT ![i].events = Append(@, e)]
  BY DEF QueueAppend
<1> DEFINE D == DOMAIN info
<1>3. i \in D /\ i \in Listed /\ info[i].target = m
  BY DEF InQueue, Contains, Listed, Members
<1>4. InfosOk(info) BY Known
<1>5. /\ InfosOk(info') /\ DOMAIN info' = DOMAIN info
      /\ info'[i].events = Append(info[i].events, e)
      /\ \A j \in DOMAIN info : /\ info'[j].target = info[j].target
                                /\ j # i => info'[j].events = info[j].events
                                /\ info'[j].marked <=> info[j].marked
                                /\ info'[j].queued <=> info[j].queued
  BY <1>2, <1>3, <1>4, AppendedFacts
<1>6. /\ UNCHANGED <<on, hw, requests, fd, flipping, swap, queue, stack, shown>>
      /\ timers' = timers /\ flip' = flip /\ vblanks' = vblanks /\ unflip' = unflip
  BY <1>1 DEF kernel
<1>7. KernelAs(Armed) BY <1>6, Known, KernelSame
<1>8. /\ HistoryOk' /\ Promised /\ given' = e /\ given' \in Nat
      /\ Pending(info, Base, asked') /\ asked'[e] = m
      /\ \A j \in DOMAIN info : \A l \in 1..Len(info[j].events) : info[j].events[l] # e
      /\ unflip # 0 => unflip <= given' /\ asked'[unflip] = 0 /\ unflip # e
      /\ unflip # e /\ e = given + 1
  BY <1>1, AskedFacts
<1>9. Listed' = Listed /\ First' = First /\ Base' = Base BY <1>6 DEF Listed, First, Base
<1>10. Marked' = Marked BY <1>5 DEF Marked
<1>11. Listed \subseteq D BY Known DEF Places, Sane, Placed
<1>12. Waiting' = Waiting BY <1>5, <1>9, <1>11 DEF Waiting
<1>13. Sane(Armed, timers, Base, Listed, D, Marked, Waiting, First, flip, flipping)
  BY Known DEF Places
<1>14. Sane(Armed, timers', Base', Listed', DOMAIN info', Marked', Waiting', First', flip', flipping')
  BY <1>5, <1>6, <1>9, <1>10, <1>12, <1>13
<1>15. queue' \in Seq(DOMAIN info') /\ Sorted(queue', info')
  <2>1. queue \in Seq(D) /\ Sorted(queue, info) BY Known
  <2>2. \A k \in 1..Len(queue) : info'[queue[k]].target = info[queue[k]].target BY <1>5, <2>1
  <2> QED BY <1>5, <1>6, <2>1, <2>2 DEF Sorted
<1>16. EventsOk'
  <2>1. /\ Events1(info, unflip) /\ Past(info, given) /\ FlipsOk(info, Listed) /\ Progress(info, Base)
        /\ given \in Int
    BY Known DEF EventsOk
  <2>2. \A j \in DOMAIN info : info[j].events \in Seq(Event) BY <1>4 DEF InfosOk, InfoRec
  <2>3. Base.at \in {"complete", "flip"} => Base.info \in DOMAIN info /\ Base.n \in Nat
    <3>1. Base.at \in {"complete", "flip"} => Base.info \in D
      BY <1>13, <1>11, HeldFacts DEF Sane, Placed
    <3>2. Base.n \in Nat
      <4>1. Base = At("idle", 0, 0) \/ Base \in Frame BY Known, StackFacts
      <4>2. Base = At("idle", 0, 0) => Base.n = 0 BY DEF At
      <4> QED BY <4>1, <4>2, BoundsAssumption DEF Frame
    <3> QED BY <3>1, <3>2
  <2> DEFINE g == info'
             a == asked'
  <2>4. /\ DOMAIN g = DOMAIN info /\ g[i].events = Append(info[i].events, e)
        /\ \A j \in DOMAIN info : g[j].target = info[j].target /\ (j # i => g[j].events = info[j].events)
        /\ Pending(info, Base, a) /\ a[e] = info[i].target
    BY <1>3, <1>5, <1>8
  <2>5. e \in Int BY DEF Event
  <2> HIDE DEF g, a
  <2>6. /\ Events1(g, unflip) /\ Pending(g, Base, a) /\ Past(g, e)
        /\ FlipsOk(g, Listed) /\ Progress(g, Base)
    <3>1. e # unflip /\ e = given + 1 BY <1>8
    <3>2. \A j \in DOMAIN info : \A l \in 1..Len(info[j].events) : info[j].events[l] # e BY <1>8
    <3>3. i \in DOMAIN info /\ i \in Listed BY <1>3
    <3> QED BY <2>1, <2>2, <2>3, <2>4, <2>5, <3>1, <3>2, <3>3, AppendEvents, SMTT(60)
  <2> QED BY <1>6, <1>8, <1>9, <2>6 DEF EventsOk, g, a
<1>17. Unflipped' BY <1>6, <1>8, <1>9, Known DEF Unflipped
<1>18. IInv'
  <2>1. /\ on' \in BOOLEAN /\ flipping' \in BOOLEAN /\ shown' \in BOOLEAN
        /\ hw' \in 0..MaxMsc /\ swap' \in Msc /\ swap' <= hw'
        /\ timers' \subseteq Info /\ flip' \in 0..Infos /\ unflip' \in 0..Events
        /\ stack' \in Seq(Frame)
    BY <1>6, Known
  <2>2. vblanks' = Cardinality(Marked') BY <1>6, <1>10, Known
  <2>3. /\ Base'.at = "complete" /\ on' => Base'.msc <= hw' + 1
        /\ Base'.at = "flip" => Base'.msc <= hw'
    BY <1>6, <1>9, Known DEF Numbers
  <2>4. Shape' BY <1>6, Known DEF Shape
  <2> QED BY <1>5, <1>7, <1>8, <1>14, <1>15, <1>16, <1>17, <2>1, <2>2, <2>3, <2>4, Together
<1>19. Woken => Woken'
  <2>1. Armed' = Armed BY <1>7 DEF KernelAs
  <2> QED BY <1>6, <1>9, <1>12, <2>1 DEF Woken
<1> QED BY <1>8, <1>18, <1>19 DEF Kept

\* sna_present_queue: the event is for the next frame that is waited for.
LEMMA FirstKept == ASSUME IInv, NEW e \in Event, NEW m \in Msc, QueueFirst(e, m) PROVE Kept
<1> DEFINE d == m - swap
           r == NewInfo(m, <<e>>, FALSE, FALSE)
<1>1. /\ InQueue(m) = {} /\ Gives(e) /\ Asks(e, m) /\ UNCHANGED <<swap, flip, unflip, stack, shown>>
  BY DEF QueueFirst
<1>2. PICK i \in Info : /\ Alloc(i) /\ AddToCrtc(i, d, With(info, i, r)) /\ ListAdd(i, m)
                        /\ IF d <= 2 THEN WaitVblank(i, m) /\ UNCHANGED timers
                           ELSE timers' = timers \cup {i} /\ UNCHANGED kernel
  BY DEF QueueFirst
<1>20. d \in Int BY Known, NoneIsNone
<1>3. r \in InfoRec /\ r.target = m /\ r.events = <<e>> /\ ~r.queued /\ ~r.marked
  BY DEF NewInfo, InfoRec
<1> HIDE DEF r, d
<1> DEFINE w == With(info, i, r)
<1>21. Alloc(i) BY <1>2
<1>4. /\ i \notin DOMAIN info /\ InfosOk(w) /\ DOMAIN w = DOMAIN info \cup {i} /\ w[i] = r
      /\ \A j \in DOMAIN info : w[j] = info[j]
  BY <1>3, <1>21, NewFacts
<1>22. AddToCrtc(i, d, w) BY <1>2
<1> HIDE DEF w
<1>5. i \in DOMAIN w BY <1>4
<1>6. /\ InfosOk(info') /\ DOMAIN info' = DOMAIN w /\ Within(info', w)
      /\ info'[i].marked <=> d = 1
      /\ \A j \in DOMAIN w : /\ j # i => (info'[j].marked <=> w[j].marked)
                             /\ info'[j].queued <=> j = i \/ w[j].queued
      /\ vblanks' = vblanks + (IF d = 1 THEN 1 ELSE 0)
  BY <1>4, <1>5, <1>22, CrtcFacts
<1>7. /\ DOMAIN info' = DOMAIN info \cup {i} /\ info'[i].target = m /\ info'[i].events = <<e>>
      /\ info'[i].queued
  BY <1>3, <1>4, <1>5, <1>6 DEF Within
<1>8. \A j \in DOMAIN info : /\ info'[j].target = info[j].target /\ info'[j].events = info[j].events
                             /\ info'[j].marked <=> info[j].marked
                             /\ info'[j].queued <=> info[j].queued
  <2> SUFFICES ASSUME NEW j \in DOMAIN info
               PROVE  /\ info'[j].target = info[j].target /\ info'[j].events = info[j].events
                      /\ info'[j].marked <=> info[j].marked
                      /\ info'[j].queued <=> info[j].queued
    OBVIOUS
  <2>1. j # i /\ j \in DOMAIN w /\ w[j] = info[j] BY <1>4
  <2>2. info'[j].target = info[j].target /\ info'[j].events = info[j].events
    BY <1>6, <2>1 DEF Within
  <2>3. (info'[j].marked <=> info[j].marked) /\ (info'[j].queued <=> info[j].queued)
    BY <1>6, <2>1
  <2> QED BY <2>2, <2>3
<1>9. i \notin Armed
  <2>1. Armed \subseteq DOMAIN info BY Known DEF Places, Sane, Placed
  <2> QED BY <1>4, <2>1
<1>10. stack' \in Seq(Frame) /\ Shape' /\ Aside BY <1>1, Known DEF Shape, Base, Aside
<1>11. /\ HistoryOk' /\ Promised /\ given' \in Nat
       /\ Pending(info, Base, asked') /\ Past(info, given')
       /\ Fresh(info, <<e>>, e, m, unflip, given', asked')
       /\ unflip # 0 => unflip <= given' /\ asked'[unflip] = 0
  BY <1>1, AskedFacts
<1>12. Fresh(info, info'[i].events, e, m, unflip, given', asked') BY <1>7, <1>11
<1>13. vblanks' = vblanks + (IF info'[i].marked THEN 1 ELSE 0) BY <1>6
<1>14. CASE d <= 2
  <2> DEFINE A == Armed \cup {i}
  <2>1. WaitVblank(i, m) /\ timers' = timers BY <1>2, <1>14
  <2>2. KernelAs(A) /\ UNCHANGED <<on, hw, flipping>> BY <1>9, <2>1, Known, WaitFacts
  <2>3. A = Armed \cup {i} /\ timers' = timers /\ info'[i].queued BY <1>7, <2>1
  <2>4. InfosOk(info') /\ ListAdd(i, m) BY <1>2, <1>6
  <2> HIDE DEF A
  <2>5. UNCHANGED <<on, hw, flipping, swap, flip, unflip, shown>> BY <1>1, <2>2
  <2> QED
    BY <1>1, <1>4, <1>7, <1>8, <1>10, <1>11, <1>12, <1>13, <2>2, <2>3, <2>4, <2>5, QueueSteps
<1>15. CASE ~ (d <= 2)
  <2> DEFINE A == Armed
  <2>1. timers' = timers \cup {i} /\ UNCHANGED <<on, hw, requests, fd, flipping>>
    BY <1>2, <1>15 DEF kernel
  <2>2. KernelAs(A) BY <2>1, Known, KernelSame
  <2>6. d # 1 BY <1>15, <1>20
  <2>3. A = Armed /\ timers' = timers \cup {i} /\ info'[i].queued /\ ~info'[i].marked
    BY <1>6, <1>7, <2>1, <2>6
  <2>4. InfosOk(info') /\ ListAdd(i, m) BY <1>2, <1>6
  <2> HIDE DEF A
  <2>5. UNCHANGED <<on, hw, flipping, swap, flip, unflip, shown>> BY <1>1, <2>1
  <2> QED
    BY <1>1, <1>4, <1>7, <1>8, <1>10, <1>11, <1>12, <1>13, <2>2, <2>3, <2>4, <2>5, QueueSteps
<1> QED BY <1>14, <1>15

\* An event is given, but no info is needed for it.
LEMMA SameSteps ==
  ASSUME IInv,
         UNCHANGED <<on, hw, requests, fd, flipping, swap, vblanks, info, queue, timers, flip, stack>>,
         shown' \in BOOLEAN, unflip' \in 0..Events, HistoryOk', Promised,
         Pending(info, Base, asked'), Past(info, given'), Events1(info, unflip'), Unflipped'
  PROVE  Kept
<1>1. KernelAs(Armed) BY Known, KernelSame
<1>2. Listed' = Listed /\ Marked' = Marked /\ Waiting' = Waiting /\ First' = First BY ListsSame
<1>3. Base' = Base BY DEF Base
<1>4. Sane(Armed, timers', Base', Listed', DOMAIN info', Marked', Waiting', First', flip', flipping')
  <2>1. Sane(Armed, timers, Base, Listed, DOMAIN info, Marked, Waiting, First, flip, flipping)
    BY Known DEF Places
  <2> QED BY <1>2, <1>3, <2>1
<1>5. EventsOk' BY <1>2, <1>3, Known DEF EventsOk
<1>6. /\ on' \in BOOLEAN /\ flipping' \in BOOLEAN
      /\ hw' \in 0..MaxMsc /\ swap' \in Msc /\ swap' <= hw'
      /\ InfosOk(info') /\ queue' \in Seq(DOMAIN info')
      /\ timers' \subseteq Info /\ flip' \in 0..Infos
      /\ stack' \in Seq(Frame) /\ Sorted(queue', info')
  BY Known
<1>7. Shape' BY Known DEF Shape
<1>8. vblanks' = Cardinality(Marked') BY <1>2, Known
<1>9. /\ Base'.at = "complete" /\ on' => Base'.msc <= hw' + 1
      /\ Base'.at = "flip" => Base'.msc <= hw'
  BY <1>3, Known DEF Numbers
<1>10. IInv' BY <1>1, <1>4, <1>5, <1>6, <1>7, <1>8, <1>9, Together
<1>11. Woken => Woken'
  <2>1. Armed' = Armed BY <1>1 DEF KernelAs
  <2> QED BY <1>2, <1>3, <2>1 DEF Woken
<1> QED BY <1>10, <1>11 DEF Kept

\* The extension is told at once.
LEMMA AnsweredSteps ==
  ASSUME IInv, NEW e \in Event, NEW m \in Msc, m <= swap, Gives(e), Answered(e, m),
         UNCHANGED <<on, hw, requests, fd, flipping, swap, vblanks, info, queue, timers, flip, stack>>,
         unflip' = unflip, shown' \in BOOLEAN
  PROVE  Kept
<1>1. /\ HistoryOk /\ swap \in Int /\ hw \in Int /\ swap <= hw /\ given \in Int
      /\ Events1(info, unflip) /\ Pending(info, Base, asked) /\ Past(info, given) /\ Unflipped
      /\ InfosOk(info)
  BY Known DEF EventsOk
<1>2. HistoryOk' /\ Promised /\ asked' = asked /\ given' = e /\ e = given + 1
  BY <1>1, AnsweredFacts
<1>3. Past(info, given')
  <2>1. \A j \in DOMAIN info : info[j].events \in Seq(Event) BY <1>1 DEF InfosOk, InfoRec
  <2>2. \A j \in DOMAIN info : Len(info[j].events) \in Nat
                               /\ \A k \in 1..Len(info[j].events) : info[j].events[k] \in Int
    <3> SUFFICES ASSUME NEW j \in DOMAIN info
                 PROVE  /\ Len(info[j].events) \in Nat
                        /\ \A k \in 1..Len(info[j].events) : info[j].events[k] \in Int
      OBVIOUS
    <3> DEFINE es == info[j].events
    <3>1. es \in Seq(Event) /\ Event \subseteq Int BY <2>1 DEF Event
    <3> HIDE DEF es
    <3>3. Len(es) \in Nat /\ \A k \in 1..Len(es) : es[k] \in Event BY <3>1
    <3>2. Len(es) \in Nat /\ \A k \in 1..Len(es) : es[k] \in Int BY <3>1, <3>3
    <3> QED BY <3>2 DEF es
  <2>3. \A x \in Int : x <= given => x <= given' BY <1>1, <1>2
  <2> QED BY <1>1, <2>2, <2>3 DEF Past
<1>4. Unflipped'
  <2>1. unflip # 0 => unflip <= given' BY <1>1, <1>2, Known DEF Unflipped
  <2>2. Base' = Base BY DEF Base
  <2> QED BY <1>1, <1>2, <2>1, <2>2 DEF Unflipped
<1>5. unflip' \in 0..Events BY Known
<1> QED BY <1>1, <1>2, <1>3, <1>4, <1>5, SameSteps

\* sna_present_queue_vblank of a frame that has passed.
LEMMA PassedKept == ASSUME IInv, NEW e \in Event, NEW m \in Msc, QueuePassed(e, m) PROVE Kept
<1>1. /\ m < swap /\ Gives(e) /\ Answered(e, m)
      /\ UNCHANGED <<kernel, swap, vblanks, lists, flip, unflip, stack, shown>>
  BY DEF QueuePassed
<1>2. m <= swap BY <1>1, Known, NoneIsNone
<1>3. UNCHANGED <<on, hw, requests, fd, flipping, swap, vblanks, info, queue, timers, flip, stack>>
      /\ unflip' = unflip
  BY <1>1 DEF kernel, lists
<1>4. shown' \in BOOLEAN BY <1>1, Known
<1> QED BY <1>1, <1>2, <1>3, <1>4, AnsweredSteps

\* A flip is asked for, or an unflip.
LEMMA FlipSteps ==
  ASSUME IInv, UNCHANGED <<on, hw, requests, fd, swap, queue, timers, unflip, stack>>,
         flip = 0, unflip = 0, shown' \in BOOLEAN,
         NEW i \in Info, i \notin DOMAIN info,
         InfosOk(info'), DOMAIN info' = DOMAIN info \cup {i}, info'[i].target = 0,
         \A j \in DOMAIN info : /\ info'[j].target = info[j].target /\ info'[j].events = info[j].events
                                /\ info'[j].marked <=> info[j].marked
                                /\ info'[j].queued <=> info[j].queued,
         flip' = i, flipping' \in BOOLEAN, flipping',
         vblanks' = vblanks + (IF info'[i].marked THEN 1 ELSE 0),
         HistoryOk', Promised, given' \in Nat, Pending(info, Base, asked'), Past(info, given'),
         NEW e, info'[i].events = <<e>>, Fresh(info, <<e>>, e, 0, unflip, given', asked')
  PROVE  Kept
<1> DEFINE D == DOMAIN info
<1>1. Sane(Armed, timers, Base, Listed, D, Marked, Waiting, First, 0, flipping)
  BY Known DEF Places
<1>2. Listed \subseteq D /\ i \notin Listed /\ i # 0 /\ Armed \subseteq Listed /\ i \notin Marked
      /\ 0 \notin D
  <2>1. Listed \subseteq D /\ Armed \subseteq Listed BY <1>1 DEF Sane, Placed
  <2>2. D \subseteq Info BY Known DEF InfosOk
  <2>3. 0 \notin Info BY BoundsAssumption DEF Info
  <2> QED BY <2>1, <2>2, <2>3 DEF Marked
<1>3. Listed' = Listed /\ First' = First /\ Base' = Base BY DEF Listed, First, Base
<1>4. Marked' = IF info'[i].marked THEN Marked \cup {i} ELSE Marked BY DEF Marked
<1>5. Waiting' = Waiting BY <1>2, <1>3 DEF Waiting
<1>6. vblanks' = Cardinality(Marked')
  <2>1. vblanks = Cardinality(Marked) /\ InfosOk(info) BY Known
  <2>2. Cardinality(Marked \cup {i}) = Cardinality(Marked) + 1 /\ Cardinality(Marked) \in Nat
    BY <1>2, <2>1, CountFacts
  <2> QED BY <1>4, <2>1, <2>2
<1>7. Sane(Armed, timers', Base', Listed', DOMAIN info', Marked', Waiting', First', flip', flipping')
  <2>1. Placed(Armed, timers, Base, Listed, D \cup {i}, i, flipping') BY <1>1, <1>2 DEF Sane, Placed
  <2>2. MarksOk(Armed, Base, Marked', i)
    <3>1. Marked \subseteq D BY DEF Marked
    <3> QED BY <1>1, <1>2, <1>4, <3>1 DEF Sane, MarksOk
  <2>3. WaitsOk(Armed, timers, Base, Waiting) /\ HeadOk(Base, Waiting, First) BY <1>1 DEF Sane
  <2> QED BY <1>3, <1>5, <2>1, <2>2, <2>3 DEF Sane
<1>8. KernelAs(Armed) BY Known, KernelSame
<1>9. EventsOk'
  <2>1. Events1(info, unflip) /\ FlipsOk(info, Listed) /\ Progress(info, Base) BY Known DEF EventsOk
  <2> DEFINE g == info'
             a == asked'
             n == given'
             R == Listed
  <2>2. InfosOk(info) BY Known
  <2>3. \A j \in DOMAIN info : g[j].target = info[j].target /\ g[j].events = info[j].events OBVIOUS
  <2>4. DOMAIN g = DOMAIN info \cup {i} /\ Fresh(info, g[i].events, e, g[i].target, unflip, n, a)
        /\ n \in Nat /\ Pending(info, Base, a) /\ Past(info, n)
        /\ g[i].target = 0 /\ g[i].events = <<e>> /\ DOMAIN info \ R \subseteq DOMAIN info \ Listed
    OBVIOUS
  <2> HIDE DEF g, a, n, R
  <2>5. Events1(g, unflip) /\ Pending(g, Base, a) /\ Past(g, n) /\ FlipsOk(g, R)
    BY <2>1, <2>2, <2>3, <2>4, NewEvents
  <2>6. Progress(g, Base)
    <3>1. Base.at \in {"complete", "flip"} => Base.info \in D
      BY <1>1, <1>2, HeldFacts DEF Sane, Placed
    <3> QED BY <2>1, <2>3, <3>1 DEF Progress
  <2> QED BY <1>3, <2>5, <2>6 DEF EventsOk, g, a, n, R
<1>10. Unflipped' BY DEF Unflipped
<1>11. IInv'
  <2>1. /\ on' \in BOOLEAN
        /\ hw' \in 0..MaxMsc /\ swap' \in Msc /\ swap' <= hw'
        /\ flip' \in 0..Infos /\ unflip' \in 0..Events /\ timers' \subseteq Info
        /\ stack' \in Seq(Frame)
    BY Known, BoundsAssumption DEF Info
  <2>2. Shape' BY Known DEF Shape
  <2>3. /\ Base'.at = "complete" /\ on' => Base'.msc <= hw' + 1
        /\ Base'.at = "flip" => Base'.msc <= hw'
    BY <1>3, Known DEF Numbers
  <2>4. queue' \in Seq(DOMAIN info') /\ Sorted(queue', info')
    <3>1. queue \in Seq(D) /\ Sorted(queue, info) BY Known
    <3>2. Members(queue) \subseteq DOMAIN info' BY <3>1 DEF Members
    <3>3. queue \in Seq(DOMAIN info') BY <3>1, <3>2, SeqIn
    <3>4. \A k \in 1..Len(queue) : info'[queue[k]].target = info[queue[k]].target BY <3>1
    <3> QED BY <3>1, <3>3, <3>4 DEF Sorted
  <2> QED BY <1>6, <1>7, <1>8, <1>9, <1>10, <2>1, <2>2, <2>3, <2>4, Together
<1>12. Woken => Woken'
  <2>1. Armed' = Armed BY <1>8 DEF KernelAs
  <2> QED BY <1>3, <1>5, <2>1 DEF Woken
<1> QED BY <1>11, <1>12 DEF Kept

\* sna_present_flip
LEMMA FlipKept == ASSUME IInv, NEW e \in Event, Flip(e) PROVE Kept
<1> DEFINE r == NewInfo(0, <<e>>, FALSE, TRUE)
<1>1. /\ flip = 0 /\ unflip = 0 /\ Gives(e) /\ Asks(e, 0) /\ shown' = TRUE
      /\ vblanks' = vblanks + 1
      /\ UNCHANGED <<on, hw, requests, fd, swap, queue, timers, unflip, stack>>
  BY DEF Flip
<1>2. PICK i \in Info : Alloc(i) /\ PageFlip(i) /\ info' = With(info, i, r) BY DEF Flip
<1>3. 0 \in Msc BY BoundsAssumption DEF Msc
<1>4. r \in InfoRec /\ r.target = 0 /\ r.events = <<e>> /\ r.marked BY <1>3 DEF NewInfo, InfoRec
<1> HIDE DEF r
<1>5. /\ i \notin DOMAIN info /\ InfosOk(info') /\ DOMAIN info' = DOMAIN info \cup {i} /\ info'[i] = r
      /\ \A j \in DOMAIN info : /\ info'[j].target = info[j].target /\ info'[j].events = info[j].events
                                /\ info'[j].marked <=> info[j].marked
                                /\ info'[j].queued <=> info[j].queued
  BY <1>2, <1>4, AddedFacts
<1>6. /\ info'[i].target = 0 /\ info'[i].events = <<e>> /\ info'[i].marked
  BY <1>4, <1>5
<1>7. /\ HistoryOk' /\ Promised /\ given' \in Nat
      /\ Pending(info, Base, asked') /\ Past(info, given')
      /\ Fresh(info, <<e>>, e, 0, unflip, given', asked')
  BY <1>1, <1>3, AskedFacts
<1>8. flip' = i /\ flipping' \in BOOLEAN /\ flipping' BY <1>2 DEF PageFlip
<1>9. vblanks' = vblanks + (IF info'[i].marked THEN 1 ELSE 0) BY <1>1, <1>6
<1>10. shown' \in BOOLEAN BY <1>1
<1> QED BY <1>1, <1>5, <1>6, <1>7, <1>8, <1>9, <1>10, FlipSteps

\* sna_present_unflip
LEMMA UnflipKept == ASSUME IInv, NEW e \in Event, Unflip(e) PROVE Kept
<1>1. /\ unflip = 0 /\ ~(Working("flip") /\ flip # 0) /\ Gives(e) /\ shown' = FALSE
      /\ UNCHANGED <<on, hw, requests, fd, swap, vblanks, queue, timers, stack>>
  BY DEF Unflip
<1>6. 0 \in Msc BY BoundsAssumption DEF Msc
<1>2. 0 \in Msc /\ shown' \in BOOLEAN BY <1>1, <1>6
<1>3. CASE Answered(e, 0) /\ UNCHANGED <<info, flip, flipping, unflip>>
  <2>1. 0 <= swap BY Known
  <2> QED BY <1>1, <1>2, <1>3, <2>1, AnsweredSteps
<1>4. CASE flip # 0 /\ unflip' = e /\ Asks(e, 0) /\ UNCHANGED <<info, flip, flipping>>
  <2>1. /\ HistoryOk' /\ Promised /\ given' = e /\ Pending(info, Base, asked') /\ Past(info, given')
        /\ asked'[e] = 0
        /\ \A j \in DOMAIN info : \A l \in 1..Len(info[j].events) : info[j].events[l] # e
    BY <1>1, <1>2, <1>4, AskedFacts
  <2>2. Events1(info, e) BY <2>1, Known DEF EventsOk, Events1
  <2>3. e \in 0..Events /\ e <= e BY BoundsAssumption DEF Event
  <2>4. Base.at \notin {"flip", "flipend"}
    <3>1. top.at # "flip" BY <1>1, <1>4 DEF Working
    <3>2. top.at = "idle" \/ top.at = "complete" BY <1>1, <3>1 DEF Gives, Extension
    <3>3. top.at = "idle" => Base.at = "idle"
      <4>1. top.at = "idle" => stack = <<>> BY Known, StackFacts
      <4> QED BY <4>1 DEF Base, At
    <3>4. top.at = "complete" => Base.at = "complete" BY Known, StackFacts
    <3> QED BY <3>2, <3>3, <3>4
  <2>5. Base' = Base BY <1>1 DEF Base
  <2>6. Unflipped' BY <1>4, <2>1, <2>3, <2>4, <2>5 DEF Unflipped
  <2> QED BY <1>1, <1>2, <1>4, <2>1, <2>2, <2>3, <2>6, SameSteps
<1>5. ASSUME flip = 0, Asks(e, 0), unflip' = unflip,
             NEW i \in Info, Alloc(i), PageFlip(i),
             info' = With(info, i, NewInfo(0, <<e>>, FALSE, FALSE))
      PROVE  Kept
  <2> DEFINE r == NewInfo(0, <<e>>, FALSE, FALSE)
  <2>1. r \in InfoRec /\ r.target = 0 /\ r.events = <<e>> /\ ~r.marked
    BY <1>2 DEF NewInfo, InfoRec
  <2>2. info' = With(info, i, r) BY <1>5
  <2> HIDE DEF r
  <2>3. /\ i \notin DOMAIN info /\ InfosOk(info') /\ DOMAIN info' = DOMAIN info \cup {i} /\ info'[i] = r
        /\ \A j \in DOMAIN info : /\ info'[j].target = info[j].target /\ info'[j].events = info[j].events
                                  /\ info'[j].marked <=> info[j].marked
                                  /\ info'[j].queued <=> info[j].queued
    BY <1>5, <2>1, <2>2, AddedFacts
  <2>4. /\ info'[i].target = 0 /\ info'[i].events = <<e>> /\ ~info'[i].marked
    BY <2>1, <2>3
  <2>5. /\ HistoryOk' /\ Promised /\ given' \in Nat
        /\ Pending(info, Base, asked') /\ Past(info, given')
        /\ Fresh(info, <<e>>, e, 0, unflip, given', asked')
    BY <1>1, <1>2, <1>5, AskedFacts
  <2>6. flip' = i /\ flipping' \in BOOLEAN /\ flipping' BY <1>5 DEF PageFlip
  <2>7. vblanks' = vblanks + (IF info'[i].marked THEN 1 ELSE 0)
    <3>1. vblanks \in Int BY CountIsNat
    <3> QED BY <1>1, <2>4, <3>1
  <2>8. UNCHANGED <<on, hw, requests, fd, swap, queue, timers, unflip, stack>> /\ flip = 0
    BY <1>1, <1>5
  <2> QED BY <1>1, <1>2, <2>3, <2>4, <2>5, <2>6, <2>7, <2>8, FlipSteps
<1> QED BY <1>3, <1>4, <1>5 DEF Unflip

\* What is known of an unflip that waits.
LEMMA UnflipFacts ==
  ASSUME IInv, unflip # 0
  PROVE  /\ unflip \in Event /\ unflip \in Nat /\ 1 <= unflip /\ unflip <= given
         /\ asked[unflip] = 0 /\ 0 \in Msc
         /\ Base.at \in {"flip", "flipend"} => flip = 0
         /\ \A j \in DOMAIN info : \A k \in 1..Len(info[j].events) : info[j].events[k] # unflip
<1>1. unflip \in 0..Events /\ Unflipped /\ Events1(info, unflip) BY Known DEF EventsOk
<1>2. unflip \in Event /\ unflip \in Nat /\ 1 <= unflip BY <1>1, BoundsAssumption DEF Event
<1>3. 0 \in Msc BY BoundsAssumption DEF Msc
<1> QED BY <1>1, <1>2, <1>3 DEF Unflipped, Events1

\* No event is 0.
LEMMA NoZero == ASSUME IInv PROVE Events1(info, 0)
<1>1. InfosOk(info) /\ Events1(info, unflip) BY Known DEF EventsOk
<1>2. ASSUME NEW j \in DOMAIN info, NEW k \in 1..Len(info[j].events) PROVE info[j].events[k] # 0
  <2>1. info[j].events \in Seq(Event) BY <1>1 DEF InfosOk, InfoRec
  <2>2. info[j].events[k] \in Event BY <2>1
  <2> QED BY <2>2, BoundsAssumption DEF Event
<1> QED BY <1>1, <1>2 DEF Events1

\* A flip is over, and the unflip that waited for it is told, ...
LEMMA UnflipToldKept ==
  ASSUME IInv, top.at = "flipend", unflip # 0, unflip' = 0, Notify(unflip, swap),
         info' = Freed(info, top.info), Leave,
         UNCHANGED <<on, hw, requests, fd, flipping, swap, vblanks, queue, timers, flip, given, shown>>
  PROVE  Kept
<1> DEFINE i == top.info
           D == DOMAIN info
<1>1. info' = Freed(info, i) OBVIOUS
<1>2. /\ i \in Info /\ i \in D /\ i \notin Listed /\ i \notin Marked /\ Listed \subseteq D
      /\ stack' \in Seq(Frame) /\ Shape' /\ Base'.at = "idle"
      /\ Sane(Armed, timers, Base', Listed, D \ {i}, Marked, Waiting, First, flip, flipping)
      /\ Held(Base, {"rearm", "complete"}) = {} /\ Held(Base', {"rearm", "complete"}) = {}
      /\ \A j : \A k : j # i => ~ Done(Base, j, k)
  BY EndFacts
<1> HIDE DEF i, D
<1>3. /\ unflip \in Event /\ asked[unflip] = 0 /\ 0 \in Msc
      /\ \A j \in D : \A k \in 1..Len(info[j].events) : info[j].events[k] # unflip
  BY UnflipFacts DEF D
<1>4. /\ HistoryOk /\ swap \in Int /\ hw \in Int /\ 0 <= swap /\ swap <= hw /\ InfosOk(info)
      /\ Pending(info, Base, asked) /\ Past(info, given) /\ FlipsOk(info, Listed)
  BY Known DEF EventsOk
<1>5. HistoryOk' /\ Promised /\ asked' = [asked EXCEPT ![unflip] = None]
  <2>1. on => swap <= hw + 1 BY <1>4
  <2> QED BY <1>3, <1>4, <2>1, NotifyFacts
<1>6. Pending(info, Base, asked')
  <2>1. \A j \in DOMAIN info : info[j].events \in Seq(Event) BY <1>4 DEF InfosOk, InfoRec
  <2>2. \A d \in Event : d # unflip => asked'[d] = asked[d] BY <1>4, <1>5 DEF HistoryOk
  <2>3. ASSUME NEW j \in DOMAIN info, NEW k \in 1..Len(info[j].events)
        PROVE  asked'[info[j].events[k]] = asked[info[j].events[k]]
    <3>1. info[j].events[k] \in Event BY <2>1
    <3> QED BY <1>3, <2>2, <3>1 DEF D
  <2> QED BY <1>4, <2>3 DEF Pending
<1>7. KernelAs(Armed) BY Known, KernelSame
<1>8. /\ InfosOk(info') /\ DOMAIN info' = D \ {i} /\ Within(info', info)
      /\ \A k \in D \ {i} : info'[k] = info[k]
  BY <1>1, <1>4, FreedStep DEF D
<1>9. /\ queue' \in Seq(DOMAIN info') /\ Sorted(queue', info')
      /\ Listed' = Listed /\ First' = First
  <2>1. Listed \subseteq DOMAIN info' BY <1>2, <1>8
  <2> QED BY <1>8, <2>1, Known, QueueSame
<1>10. Marked' = Marked BY <1>2, <1>8 DEF Marked, D
<1>11. Waiting' = Waiting BY <1>2, <1>8, <1>9 DEF Waiting
<1>12. Sane(Armed, timers', Base', Listed', DOMAIN info', Marked', Waiting', First', flip', flipping')
  BY <1>2, <1>8, <1>9, <1>10, <1>11
<1>13. EventsOk'
  <2>1. Progress(info', Base') BY <1>2 DEF Progress
  <2>2. \A j \in DOMAIN info' : \A k \in 1..Len(info'[j].events) :
          Done(Base, j, k) => Done(Base', j, k)
    BY <1>2, <1>8
  <2>3. DOMAIN info' \ Listed' \subseteq DOMAIN info \ Listed BY <1>8, <1>9 DEF D
  <2>4. Events1(info, 0) BY NoZero
  <2> DEFINE g == info'
             a == asked'
             c == Base'
             R == Listed'
  <2>5. /\ Within(g, info) /\ Pending(info, Base, a) /\ DOMAIN g \ R \subseteq DOMAIN info \ Listed
        /\ \A j \in DOMAIN g : \A k \in 1..Len(g[j].events) : Done(Base, j, k) => Done(c, j, k)
    BY <1>6, <1>8, <2>2, <2>3
  <2> HIDE DEF g, a, c, R
  <2>6. Events1(g, 0) /\ Pending(g, c, a) /\ Past(g, given) /\ FlipsOk(g, R)
    BY <1>4, <2>4, <2>5, WithinEvents
  <2> QED BY <2>1, <2>6 DEF EventsOk, g, a, c, R
<1>14. Unflipped' BY DEF Unflipped
<1>15. IInv'
  <2>1. /\ on' \in BOOLEAN /\ flipping' \in BOOLEAN /\ shown' \in BOOLEAN
        /\ hw' \in 0..MaxMsc /\ swap' \in Msc /\ swap' <= hw'
        /\ timers' \subseteq Info /\ flip' \in 0..Infos
    BY Known
  <2>2. unflip' \in 0..Events BY BoundsAssumption
  <2>3. vblanks' = Cardinality(Marked') BY <1>10, Known
  <2> QED BY <1>2, <1>5, <1>7, <1>8, <1>9, <1>12, <1>13, <1>14, <2>1, <2>2, <2>3, Together
<1>16. Woken => Woken'
  <2>1. Armed' = Armed BY <1>7 DEF KernelAs
  <2> QED BY <1>2, <1>9, <1>11, <2>1 DEF Woken
<1> QED BY <1>5, <1>15, <1>16 DEF Kept

\* ... or is a flip.
LEMMA UnflipFlipsKept ==
  ASSUME IInv, top.at = "flipend", unflip # 0, unflip' = 0, NEW i \in Info, Alloc(i), PageFlip(i),
         info' = Freed(With(info, i, NewInfo(0, <<unflip>>, FALSE, FALSE)), top.info), Leave,
         UNCHANGED <<on, hw, requests, fd, swap, vblanks, queue, timers, given, shown, asked, told>>
  PROVE  Kept
<1> DEFINE o == top.info
           D == DOMAIN info
           r == NewInfo(0, <<unflip>>, FALSE, FALSE)
           w == With(info, i, r)
<1>1. info' = Freed(w, o) OBVIOUS
<1>2. /\ o \in D /\ o \notin Listed /\ o \notin Marked /\ Listed \subseteq D
      /\ stack' \in Seq(Frame) /\ Shape' /\ Base.at = "flipend" /\ Base'.at = "idle"
      /\ Sane(Armed, timers, Base', Listed, D \ {o}, Marked, Waiting, First, flip, flipping)
      /\ Held(Base, {"rearm", "complete"}) = {} /\ Held(Base', {"rearm", "complete"}) = {}
      /\ \A j : \A k : j # o => ~ Done(Base, j, k)
  BY EndFacts
<1> HIDE DEF o
<1>3. /\ unflip \in Event /\ unflip \in Nat /\ 1 <= unflip /\ unflip <= given
      /\ asked[unflip] = 0 /\ 0 \in Msc /\ flip = 0
      /\ \A j \in DOMAIN info : \A k \in 1..Len(info[j].events) : info[j].events[k] # unflip
  BY <1>2, UnflipFacts
<1>4. /\ InfosOk(info) /\ given \in Nat
      /\ Pending(info, Base, asked) /\ Past(info, given) /\ FlipsOk(info, Listed)
  BY Known DEF EventsOk
<1>5. r \in InfoRec /\ r.target = 0 /\ r.events = <<unflip>> /\ ~r.marked /\ ~r.queued
  BY <1>3 DEF NewInfo, InfoRec
<1> HIDE DEF r
<1>6. /\ i \notin D /\ InfosOk(w) /\ DOMAIN w = D \cup {i} /\ w[i] = r
      /\ \A j \in D : w[j] = info[j]
  BY <1>5, NewFacts
<1> HIDE DEF w
<1>7. /\ InfosOk(info') /\ DOMAIN info' = (D \cup {i}) \ {o} /\ Within(info', w)
      /\ \A k \in (D \cup {i}) \ {o} : info'[k] = w[k]
  <2>1. InfosOk(w) /\ info' = Freed(w, o) BY <1>1, <1>6
  <2>2. /\ InfosOk(info') /\ DOMAIN info' = DOMAIN w \ {o} /\ Within(info', w)
        /\ \A k \in DOMAIN w \ {o} : info'[k] = w[k]
    BY <2>1, FreedStep
  <2>3. DOMAIN w = D \cup {i} BY <1>6
  <2> HIDE DEF D
  <2> QED BY <2>2, <2>3
<1>8. i # o /\ i # 0 /\ i \notin Listed /\ i \notin Marked /\ 0 \notin D
  <2>1. D \subseteq Info /\ 0 \notin Info BY <1>4, BoundsAssumption DEF InfosOk, Info
  <2> QED BY <1>2, <1>6, <2>1 DEF Marked
<1>9. /\ DOMAIN info' = (D \ {o}) \cup {i} /\ info'[i] = r
      /\ \A j \in D \ {o} : info'[j] = info[j]
  BY <1>6, <1>7, <1>8
<1>10. Listed' = Listed /\ First' = First BY DEF Listed, First
<1>11. Marked' = Marked BY <1>2, <1>5, <1>8, <1>9 DEF Marked, D
<1>12. Waiting' = Waiting BY <1>2, <1>9, <1>10 DEF Waiting
<1>13. flip' = i /\ flipping' \in BOOLEAN /\ flipping' BY DEF PageFlip
<1>14. Sane(Armed, timers', Base', Listed', DOMAIN info', Marked', Waiting', First', flip', flipping')
  <2>1. Sane(Armed, timers, Base', Listed, D \ {o}, Marked, Waiting, First, 0, flipping) BY <1>2, <1>3
  <2>2. Placed(Armed, timers, Base', Listed, (D \ {o}) \cup {i}, i, flipping')
    <3>1. Armed \subseteq Listed /\ Listed \subseteq D \ {o} BY <2>1 DEF Sane, Placed
    <3>2. Held(Base', {"flip", "flipend"}) = {} BY <1>2, HeldFacts
    <3> QED BY <1>2, <1>6, <1>8, <1>13, <2>1, <3>1, <3>2 DEF Sane, Placed
  <2>3. MarksOk(Armed, Base', Marked, i)
    <3>1. Marked \subseteq D BY DEF Marked, D
    <3> QED BY <1>8, <2>1, <3>1 DEF Sane, MarksOk
  <2> QED BY <1>9, <1>10, <1>11, <1>12, <1>13, <2>1, <2>2, <2>3 DEF Sane
<1>15. KernelAs(Armed) BY Known, KernelSame
<1>16. HistoryOk' /\ Promised BY Known, NothingTold
<1>17. EventsOk'
  <2>1. Fresh(info, <<unflip>>, unflip, 0, 0, given, asked) BY <1>3 DEF Fresh
  <2>2. Events1(w, 0) /\ Pending(w, Base, asked) /\ Past(w, given) /\ FlipsOk(w, Listed)
    <3>1. Events1(info, 0) BY NoZero
    <3>2. w[i].events = <<unflip>> /\ w[i].target = 0 BY <1>5, <1>6
    <3>3. i \notin DOMAIN info /\ DOMAIN w = DOMAIN info \cup {i} BY <1>6 DEF D
    <3>4. \A j \in DOMAIN info : w[j].target = info[j].target /\ w[j].events = info[j].events
      BY <1>6 DEF D
    <3>5. Fresh(info, w[i].events, unflip, w[i].target, 0, given, asked) BY <2>1, <3>2
    <3> QED BY <1>4, <3>1, <3>2, <3>3, <3>4, <3>5, NewEvents, ZenonT(60)
  <2>3. Progress(info', Base') BY <1>2 DEF Progress
  <2>4. i # o /\ \A j \in DOMAIN info' : \A k \in 1..Len(info'[j].events) :
          Done(Base, j, k) => Done(Base', j, k)
    BY <1>2, <1>7, <1>8
  <2>5. DOMAIN info' \ Listed' \subseteq DOMAIN w \ Listed BY <1>6, <1>7, <1>10
  <2> DEFINE g == info'
             c == Base'
             R == Listed'
  <2>6. /\ Within(g, w) /\ DOMAIN g \ R \subseteq DOMAIN w \ Listed
        /\ \A j \in DOMAIN g : \A k \in 1..Len(g[j].events) : Done(Base, j, k) => Done(c, j, k)
    BY <1>7, <2>4, <2>5
  <2> HIDE DEF g, c, R
  <2>7. Events1(g, 0) /\ Pending(g, c, asked) /\ Past(g, given) /\ FlipsOk(g, R)
    BY <2>2, <2>6, WithinEvents
  <2> QED BY <2>3, <2>7 DEF EventsOk, g, c, R
<1>18. Unflipped' BY DEF Unflipped
<1>19. IInv'
  <2>1. /\ on' \in BOOLEAN /\ shown' \in BOOLEAN
        /\ hw' \in 0..MaxMsc /\ swap' \in Msc /\ swap' <= hw'
        /\ timers' \subseteq Info
    BY Known
  <2>2. unflip' \in 0..Events /\ flip' \in 0..Infos BY <1>13, BoundsAssumption DEF Info
  <2>3. vblanks' = Cardinality(Marked') BY <1>11, Known
  <2>4. /\ queue' \in Seq(DOMAIN info') /\ Sorted(queue', info')
    <3>1. queue \in Seq(D) /\ Sorted(queue, info) BY Known DEF D
    <3>2. \A k \in 1..Len(queue) : queue[k] \in Listed BY <3>1 DEF Listed, Members
    <3>3. Members(queue) \subseteq DOMAIN info' BY <1>2, <1>9 DEF Listed
    <3>4. queue \in Seq(DOMAIN info') BY <3>1, <3>3, SeqIn
    <3>5. \A k \in 1..Len(queue) : info'[queue[k]].target = info[queue[k]].target
      BY <1>2, <1>9, <3>2
    <3> QED BY <3>1, <3>4, <3>5 DEF Sorted
  <2> QED BY <1>2, <1>7, <1>13, <1>14, <1>15, <1>16, <1>17, <1>18, <2>1, <2>2, <2>3, <2>4, Together
<1>20. Woken => Woken'
  <2>1. Armed' = Armed BY <1>15 DEF KernelAs
  <2> QED BY <1>2, <1>10, <1>12, <2>1 DEF Woken
<1> QED BY <1>16, <1>19, <1>20 DEF Kept

\* present_flip_handler, at its end.
LEMMA FlipEndUnflipKept == ASSUME IInv, FlipEndUnflip PROVE Kept
<1>1. /\ top.at = "flipend" /\ unflip # 0 /\ unflip' = 0 /\ Leave
      /\ UNCHANGED <<on, hw, requests, fd, swap, vblanks, queue, timers, given, shown>>
  BY DEF FlipEndUnflip, Working, client
<1>2. CASE Notify(unflip, swap) /\ info' = Freed(info, top.info) /\ UNCHANGED <<flip, flipping>>
  BY <1>1, <1>2, UnflipToldKept
<1>3. CASE /\ \E i \in Info :
                /\ Alloc(i) /\ PageFlip(i)
                /\ info' = Freed(With(info, i, NewInfo(0, <<unflip>>, FALSE, FALSE)), top.info)
           /\ UNCHANGED <<asked, told>>
  BY <1>1, <1>3, UnflipFlipsKept
<1> QED BY <1>2, <1>3 DEF FlipEndUnflip, history

-----------------------------------------------------------------------------
(* The specification.                                                        *)

\* Nothing happens.
LEMMA StutterKept == ASSUME IInv, UNCHANGED vars PROVE Kept
<1>1. /\ UNCHANGED <<on, hw, requests, fd, flipping, swap, vblanks, info, queue, timers, flip, unflip>>
      /\ UNCHANGED <<stack, given, shown, asked, told>>
  BY DEF vars, kernel, lists, client, history
<1>2. HistoryOk' /\ Promised BY <1>1, Known, NothingTold
<1>3. /\ Pending(info, Base, asked') /\ Past(info, given') /\ Events1(info, unflip')
      /\ shown' \in BOOLEAN /\ unflip' \in 0..Events
  BY <1>1, Known DEF EventsOk
<1>4. Unflipped'
  <2>1. Base' = Base BY <1>1 DEF Base
  <2> QED BY <1>1, <2>1, Known DEF Unflipped
<1> QED BY <1>1, <1>2, <1>3, <1>4, SameSteps

\* Initially.
LEMMA InitInv == Init => IInv /\ Woken /\ Contract!Init
<1> SUFFICES ASSUME Init PROVE IInv /\ Woken /\ Contract!Init OBVIOUS
<1>1. /\ on = TRUE /\ hw = 0 /\ requests = <<>> /\ fd = <<>> /\ flipping = FALSE
      /\ swap = 0 /\ vblanks = 0 /\ info = <<>> /\ queue = <<>> /\ timers = {}
      /\ flip = 0 /\ unflip = 0 /\ stack = <<>> /\ given = 0 /\ shown = FALSE
      /\ asked = [e \in Event |-> None] /\ told = [e \in Event |-> <<>>]
  BY DEF Init
<1>2. DOMAIN info = {} /\ DOMAIN requests = {} /\ DOMAIN fd = {} /\ DOMAIN queue = {}
      /\ Len(requests) = 0 /\ Len(fd) = 0 /\ Len(queue) = 0 /\ Len(stack) = 0
  BY <1>1
<1>3. Armed = {} /\ Listed = {} /\ First = 0 /\ Waiting = {} /\ Marked = {} /\ Base = At("idle", 0, 0)
  <2>1. Armed = {} BY <1>2 DEF Armed, Of
  <2>2. Listed = {} BY <1>2 DEF Listed, Members
  <2>3. Waiting = {} BY <2>2 DEF Waiting
  <2>4. Marked = {} BY <1>2 DEF Marked
  <2>5. First = 0 /\ Base = At("idle", 0, 0) BY <1>1 DEF First, FirstOf, Base
  <2> QED BY <2>1, <2>2, <2>3, <2>4, <2>5
<1>4. TypeOK
  <2>1. /\ on \in BOOLEAN /\ hw \in 0..MaxMsc /\ flipping \in BOOLEAN /\ swap \in Msc
        /\ vblanks \in Nat /\ flip \in 0..Infos /\ unflip \in 0..Events /\ given \in 0..Events
        /\ shown \in BOOLEAN
    <3>1. \A n \in Nat : 0 \in 0..n OBVIOUS
    <3>2. MaxMsc + 1 \in Nat /\ 0 \in Nat BY BoundsAssumption
    <3>3. 0 \in 0..MaxMsc /\ 0 \in Msc /\ 0 \in 0..Infos /\ 0 \in 0..Events
      BY <3>1, <3>2, BoundsAssumption DEF Msc
    <3> QED BY <1>1, <3>2, <3>3
  <2>2. /\ requests \in Seq(Vblank) /\ fd \in Seq(Vblank) /\ queue \in Seq(DOMAIN info)
        /\ stack \in Seq(Frame) /\ timers \subseteq Info
    BY <1>1
  <2>3. asked \in [Event -> Msc \cup {None}] /\ told \in [Event -> Seq({"early", "due", "ahead"})]
    BY <1>1
  <2> QED BY <1>2, <2>1, <2>2, <2>3 DEF TypeOK
<1>5. Base.at = "idle" BY <1>3 DEF At
<1>6. \A places : "idle" \notin places => Held(Base, places) = {} BY <1>5 DEF Held
<1>7. Shape BY <1>2 DEF Shape
<1>8. KernelOnce
  <2>1. Of(requests) = {} BY <1>2 DEF Of
  <2> QED BY <1>2, <2>1 DEF KernelOnce, Single
<1>9. Places BY <1>1, <1>2, <1>3, <1>6 DEF Places, Sane, Placed, MarksOk, WaitsOk, HeadOk
<1>10. vblanks = Cardinality(Marked) BY <1>1, <1>3, FS_EmptySet
<1>11. Sorted(queue, info) BY <1>2 DEF Sorted
<1>12. Numbers BY <1>1, <1>2, <1>5 DEF Numbers
<1>13. EventsOk BY <1>2, <1>5 DEF EventsOk, Events1, Pending, Past, FlipsOk, Progress
<1>14. Unflipped BY <1>1 DEF Unflipped
<1>15. History BY <1>1 DEF History
<1>16. IInv BY <1>4, <1>7, <1>8, <1>9, <1>10, <1>11, <1>12, <1>13, <1>14, <1>15 DEF IInv
<1>17. Woken BY <1>3 DEF Woken
<1>18. Contract!Init BY <1>1 DEF Contract!Init, Contract!None, None
<1> QED BY <1>16, <1>17, <1>18

\* The steps the X server takes by itself.
LEMMA WorkKept == ASSUME IInv, Read \/ Work \/ KeepAlive \/ Timer PROVE Kept
<1>1. CASE Read BY <1>1, VblankKept, FlipEventKept DEF Read
<1>2. CASE Work
  BY <1>2, RequeueKept, FakeKept, CompleteNotifyKept, NextKept, FlipNotifyKept, FlipClearKept,
     FlipEndKept, FlipEndUnflipKept, RearmKept DEF Work
<1>3. CASE KeepAlive BY <1>3, KeepAliveKept
<1>4. CASE Timer BY <1>4, TimerKept DEF Timer
<1> QED BY <1>1, <1>2, <1>3, <1>4

\* What the Present extension asks for.
LEMMA RequestKept == ASSUME IInv, Request PROVE Kept
<1>1. CASE GetMsc BY <1>1, GetMscKept
<1>2. ASSUME NEW e \in Event, NEW m \in 0..MaxMsc,
             QueuePassed(e, m) \/ QueueAppend(e, m) \/ QueueBehind(e, m) \/ QueueFirst(e, m)
      PROVE  Kept
  <2>1. m \in Msc BY BoundsAssumption DEF Msc
  <2> QED BY <1>2, <2>1, PassedKept, AppendKept, BehindKept, FirstKept
<1>3. ASSUME NEW e \in Event, Flip(e) \/ Unflip(e) PROVE Kept BY <1>3, FlipKept, UnflipKept
<1> QED BY <1>1, <1>2, <1>3 DEF Request

\* Each step keeps the invariant and the promise.
LEMMA StepKept == ASSUME IInv, [Next]_vars PROVE Kept
<1>1. CASE Tick \/ FlipDone \/ SwitchCrtc BY <1>1, TickKept, FlipDoneKept, SwitchKept
<1>2. CASE Read \/ Work \/ KeepAlive \/ Timer BY <1>2, WorkKept
<1>3. CASE Request BY <1>3, RequestKept
<1>4. CASE UNCHANGED vars BY <1>4, StutterKept
<1> QED BY <1>1, <1>2, <1>3, <1>4 DEF Next

\* The inductive invariant holds.
LEMMA Inductive == Spec => []IInv
<1>1. Init => IInv BY InitInv
<1>2. IInv /\ [Next]_vars => IInv' BY StepKept DEF Kept
<1> QED BY <1>1, <1>2, PTL DEF Spec

\* All variables keep their types, for any bounds: the count of the CRTC never
\* goes below zero, and the queue holds infos that are allocated.
THEOREM TypeCorrect == Spec => []TypeOK
<1>1. IInv => TypeOK BY DEF IInv
<1> QED BY <1>1, Inductive, PTL

\* The driver tells the extension what SnaVblank promises: each event once, not
\* early and not ahead of time, whatever the CRTC and the extension do.
THEOREM ImplementsVblank == Spec => Implements
<1>1. Init => Contract!Init BY InitInv
<1>2. IInv /\ [Next]_vars => [Contract!Next]_(Contract!events)
  <2>1. ASSUME IInv, [Next]_vars PROVE Promised BY <2>1, StepKept DEF Kept
  <2> QED BY <2>1 DEF Promised, Contract!events, history
<1> QED BY <1>1, <1>2, Inductive, PTL DEF Spec, Implements, Contract!Spec

\* The queue is in the order of the frames, and when the X server is idle its
\* first info is queued, so that nothing waits for ever behind it.
THEOREM HeadIsQueued == Spec => []HeadQueued
<1>1. ASSUME IInv PROVE HeadQueued
  <2>1. /\ queue \in Seq(DOMAIN info) /\ Sorted(queue, info)
        /\ Sane(Armed, timers, Base, Listed, DOMAIN info, Marked, Waiting, First, flip, flipping)
    BY <1>1, Known DEF Places
  <2>2. ASSUME NEW k \in 2..Len(queue)
        PROVE  info[queue[k - 1]].target < info[queue[k]].target
    <3>1. k - 1 \in 1..Len(queue) /\ k \in 1..Len(queue) /\ k - 1 < k BY <2>1
    <3> QED BY <2>1, <3>1 DEF Sorted
  <2>3. ASSUME stack = <<>>, queue # <<>> PROVE info[queue[1]].queued
    <3>1. Held(Base, {"complete"}) = {} BY <2>3 DEF Held, Base, At
    <3>2. First \notin Waiting BY <2>1, <3>1 DEF Sane, HeadOk
    <3>3. 1 \in DOMAIN queue BY <2>1, <2>3
    <3>4. First = queue[1] /\ queue[1] \in Listed BY <2>3, <3>3 DEF First, FirstOf, Listed, Members
    <3> QED BY <3>2, <3>4 DEF Waiting
  <2> QED BY <2>2, <2>3 DEF HeadQueued
<1> QED BY <1>1, Inductive, PTL

\* How often the kernel will tell of an info.
LEMMA KernelCount ==
  ASSUME IInv, NEW i \in Info PROVE InKernel(i) = IF i \in Armed \/ i = flip THEN 1 ELSE 0
<1>1. /\ requests \in Seq(Vblank) /\ fd \in Seq(Vblank) /\ KernelOnce
      /\ Sane(Armed, timers, Base, Listed, DOMAIN info, Marked, Waiting, First, flip, flipping)
  BY Known DEF KernelOk, Places
<1>2. Cardinality({k \in DOMAIN requests : requests[k].info = i}) = IF i \in Of(requests) THEN 1 ELSE 0
  BY <1>1, OneEntry DEF KernelOnce
<1>3. Cardinality({k \in DOMAIN fd : fd[k].info = i}) = IF i \in Of(fd) THEN 1 ELSE 0
  BY <1>1, OneEntry DEF KernelOnce
<1>4. ~ (i \in Of(requests) /\ i \in Of(fd)) /\ (i \in Armed <=> i \in Of(requests) \/ i \in Of(fd))
  BY <1>1 DEF KernelOnce, Armed
<1>5. flipping <=> flip # 0 /\ flip \notin Armed BY <1>1 DEF Sane, Placed
<1>6. i # 0 BY BoundsAssumption DEF Info
<1> DEFINE a == Cardinality({k \in DOMAIN requests : requests[k].info = i})
           b == Cardinality({k \in DOMAIN fd : fd[k].info = i})
<1>7. InKernel(i) = a + b + (IF flipping /\ flip = i THEN 1 ELSE 0) BY DEF InKernel
<1> HIDE DEF a, b
<1>8. a = (IF i \in Of(requests) THEN 1 ELSE 0) /\ b = (IF i \in Of(fd) THEN 1 ELSE 0)
  BY <1>2, <1>3 DEF a, b
<1>9. CASE i \in Of(requests) BY <1>4, <1>5, <1>7, <1>8, <1>9
<1>10. CASE i \in Of(fd) BY <1>4, <1>5, <1>7, <1>8, <1>10
<1>11. CASE i \notin Of(requests) /\ i \notin Of(fd) BY <1>4, <1>5, <1>6, <1>7, <1>8, <1>11
<1> QED BY <1>9, <1>10, <1>11

\* And how often the X server is at it.
LEMMA WorkCount ==
  ASSUME IInv, NEW i \in Info
  PROVE  AtWork(i) = IF i \in Held(Base, {"rearm", "complete"}) \cup Held(Base, {"flip", "flipend"})
                     THEN 1 ELSE 0
<1> DEFINE S == {k \in DOMAIN stack : stack[k].info = i}
<1>1. stack \in Seq(Frame) /\ Shape BY Known
<1>2. i # 0 BY BoundsAssumption DEF Info
<1>3. DOMAIN stack = 1..Len(stack) /\ Len(stack) \in Nat BY <1>1
<1>4. \A k \in 1..Len(stack) :
        /\ stack[k].at \in {"rearm", "complete", "keepalive", "flip", "flipend"}
        /\ stack[k].at = "keepalive" => stack[k].info = 0
        /\ stack[k].at # "keepalive" => k = Len(stack)
  <2>1. \A k \in 1..Len(stack) : stack[k] \in Frame BY <1>1
  <2>2. \A k \in 1..Len(stack) : stack[k].at \in {"rearm", "complete", "keepalive", "flip", "flipend"}
    BY <2>1 DEF Frame
  <2> QED BY <1>1, <2>2 DEF Shape
<1>5. Held(Base, {"rearm", "complete"}) \cup Held(Base, {"flip", "flipend"})
      = IF Base.at \in {"rearm", "complete", "flip", "flipend"} THEN {Base.info} ELSE {}
  BY HeldFacts
<1>6. CASE stack = <<>>
  <2>1. S = {} BY <1>3, <1>6
  <2>2. Base.at = "idle" BY <1>6 DEF Base, At
  <2> QED BY <1>5, <2>1, <2>2, FS_EmptySet DEF AtWork
<1>7. CASE stack # <<>> /\ stack[Len(stack)].at = "keepalive"
  <2>1. Len(stack) \in 1..Len(stack) BY <1>1, <1>7
  <2>2. S = {} BY <1>2, <1>3, <1>4, <1>7, <2>1
  <2>3. Base.at = "keepalive" BY <1>7 DEF Base
  <2> QED BY <1>5, <2>2, <2>3, FS_EmptySet DEF AtWork
<1>8. CASE stack # <<>> /\ stack[Len(stack)].at # "keepalive"
  <2>1. Len(stack) \in 1..Len(stack) BY <1>1, <1>8
  <2>2. Base = stack[Len(stack)] BY <1>8 DEF Base
  <2>3. Base.at \in {"rearm", "complete", "flip", "flipend"} BY <1>4, <1>8, <2>1, <2>2, SMTT(40)
  <2>4. \A k \in S : k = Len(stack) BY <1>2, <1>3, <1>4
  <2>5. CASE Base.info = i
    <3>1. S = {Len(stack)} BY <1>3, <2>1, <2>2, <2>4, <2>5
    <3>2. Cardinality(S) = 1 BY <3>1, FS_Singleton
    <3> QED BY <1>5, <2>3, <2>5, <3>2 DEF AtWork
  <2>6. CASE Base.info # i
    <3>1. S = {} BY <2>2, <2>4, <2>6
    <3> QED BY <1>5, <2>3, <2>6, <3>1, FS_EmptySet DEF AtWork
  <2> QED BY <2>5, <2>6
<1> QED BY <1>6, <1>7, <1>8

\* While the count of the CRTC says that swap is kept up to date, the kernel has
\* an event for each that is counted, or it has just been handed over.
THEOREM CountIsKept == Spec => []CountKept
<1>1. ASSUME IInv PROVE CountKept
  <2>1. /\ vblanks = Cardinality(Marked)
        /\ Sane(Armed, timers, Base, Listed, DOMAIN info, Marked, Waiting, First, flip, flipping)
    BY <1>1, Known DEF Places
  <2>2. ASSUME NEW i \in DOMAIN info, info[i].marked
        PROVE  InKernel(i) = 1 \/ \E k \in DOMAIN stack : stack[k].at = "flip" /\ stack[k].info = i
    <3>1. i \in Info
      <4>1. InfosOk(info) BY <1>1, Known
      <4> QED BY <4>1 DEF InfosOk
    <3>2. i \in Armed \/ i = flip \/ i \in Held(Base, {"flip"})
      BY <2>1, <2>2 DEF Sane, MarksOk, Marked
    <3>3. CASE i \in Armed \/ i = flip BY <1>1, <3>1, <3>3, KernelCount
    <3>4. CASE i \in Held(Base, {"flip"})
      <4>1. Base.at = "flip" /\ Base.info = i BY <3>4, HeldFacts
      <4>2. stack # <<>> BY <4>1 DEF Base, At
      <4>3. stack \in Seq(Frame) BY <1>1, Known
      <4>4. Len(stack) \in DOMAIN stack BY <4>2, <4>3
      <4> QED BY <4>1, <4>2, <4>4 DEF Base
    <3> QED BY <3>2, <3>3, <3>4
  <2> QED BY <2>1, <2>2 DEF CountKept, Marked
<1> QED BY <1>1, Inductive, PTL

\* Nothing wakes an info that was freed, nothing wakes an info twice, and one that
\* waits for another one is woken by nothing else.
NeverTwice ==
  \A i \in Info :
    /\ Wakes(i) <= 1
    /\ i \notin DOMAIN info => Wakes(i) = 0
    /\ i \in Waiting => Wakes(i) = AtWork(i)

\* How often an info is woken.
LEMMA WakeCount ==
  ASSUME IInv, NEW i \in Info
  PROVE  /\ AtWork(i) \in {0, 1}
         /\ Wakes(i) \in {0, 1}
         /\ i \notin DOMAIN info => Wakes(i) = 0
         /\ i \in Waiting => Wakes(i) = AtWork(i)
         /\ i \in DOMAIN info \ Listed => Wakes(i) = 1
         /\ i \in Armed \cup timers \cup Held(Base, {"rearm", "complete"}) => Wakes(i) = 1
<1> DEFINE H == Held(Base, {"rearm", "complete"})
           F == Held(Base, {"flip", "flipend"})
<1>1. Sane(Armed, timers, Base, Listed, DOMAIN info, Marked, Waiting, First, flip, flipping)
  BY Known DEF Places
<1>2. InKernel(i) = IF i \in Armed \/ i = flip THEN 1 ELSE 0 BY KernelCount
<1>3. AtWork(i) = IF i \in H \cup F THEN 1 ELSE 0 BY WorkCount
<1>4. Wakes(i) = InKernel(i) + AtWork(i) + (IF i \in timers THEN 1 ELSE 0) BY DEF Wakes
<1>5. i # 0 /\ Waiting \subseteq Listed BY BoundsAssumption DEF Info, Waiting
<1>6. /\ Listed \subseteq DOMAIN info /\ Armed \subseteq Listed \cup ({flip} \ {0})
      /\ timers \subseteq Listed \ Armed /\ H \subseteq Listed \ (Armed \cup timers)
      /\ F \subseteq DOMAIN info \ (Listed \cup {flip}) /\ (flip # 0 => flip \in DOMAIN info \ Listed)
      /\ DOMAIN info \subseteq Listed \cup {flip} \cup F
      /\ Waiting \cap (Armed \cup timers) = {}
  BY <1>1 DEF Sane, Placed, WaitsOk
<1> HIDE DEF H, F
<1>7. CASE i \notin DOMAIN info
  <2>1. i \notin Listed /\ i \notin F /\ i # flip BY <1>5, <1>6, <1>7
  <2>2. i \notin Armed /\ i \notin timers /\ i \notin H /\ i \notin Waiting BY <1>5, <1>6, <2>1
  <2> QED BY <1>2, <1>3, <1>4, <1>7, <2>1, <2>2 DEF H
<1>8. CASE i \in Listed
  <2>1. i \notin F /\ i # flip BY <1>5, <1>6, <1>8
  <2>2. i \in Waiting => i \notin Armed /\ i \notin timers BY <1>6
  <2>3. ~ (i \in Armed /\ i \in timers) /\ ~ (i \in Armed /\ i \in H) /\ ~ (i \in timers /\ i \in H)
    BY <1>6
  <2> QED BY <1>2, <1>3, <1>4, <1>6, <1>8, <2>1, <2>2, <2>3 DEF H
<1>9. CASE i \in DOMAIN info \ Listed
  <2>1. i \notin timers /\ i \notin H /\ i \notin Waiting BY <1>5, <1>6, <1>9
  <2>2. i = flip <=> i \notin F BY <1>6, <1>9
  <2>3. i \in Armed => i = flip BY <1>6, <1>9
  <2> QED BY <1>2, <1>3, <1>4, <1>9, <2>1, <2>2, <2>3 DEF H
<1> QED BY <1>7, <1>8, <1>9

\* No info is used after it was freed, or handled twice: whatever is with the
\* kernel, with a timer or in the hands of the X server is one info each.
THEOREM NoUseAfterFree == Spec => []NeverTwice
<1>1. ASSUME IInv, NEW i \in Info
      PROVE  /\ Wakes(i) <= 1
             /\ i \notin DOMAIN info => Wakes(i) = 0
             /\ i \in Waiting => Wakes(i) = AtWork(i)
  BY <1>1, WakeCount
<1>2. IInv => NeverTwice BY <1>1 DEF NeverTwice
<1> QED BY <1>2, Inductive, PTL

\* Each info has one thing that wakes it, or, if it waits for another one, none:
\* unless sna_present_queue writes to an info that was freed, and is one of those
\* that wait by now.
THEOREM OneWakeEach == Spec /\ []Spared => []OneWake
<1>1. Init => Woken BY InitInv
<1>2. IInv /\ Spared /\ Woken /\ [Next]_vars => Woken' BY StepKept DEF Kept
<1>3. ASSUME IInv, Woken PROVE OneWake
  <2> SUFFICES ASSUME NEW i \in Info
               PROVE  /\ i \notin DOMAIN info => Wakes(i) = 0
                      /\ i \in Waiting => Wakes(i) = AtWork(i)
                      /\ i \in DOMAIN info \ Waiting => Wakes(i) = 1
    <3>1. \A i : Contains(queue, i) <=> i \in Listed BY DEF Contains, Listed, Members
    <3>2. \A i : i \in DOMAIN info /\ Contains(queue, i) /\ ~info[i].queued => i \in Waiting
      BY <3>1 DEF Waiting
    <3>3. \A i : i \in Waiting => Contains(queue, i) /\ ~info[i].queued BY <3>1 DEF Waiting
    <3> QED BY <3>2, <3>3 DEF OneWake
  <2>1. (i \notin DOMAIN info => Wakes(i) = 0) /\ (i \in Waiting => Wakes(i) = AtWork(i))
    BY <1>3, WakeCount
  <2>2. ASSUME i \in DOMAIN info \ Waiting PROVE Wakes(i) = 1
    <3>1. CASE i \in Listed
      <4>1. i \in Armed \cup timers \cup Held(Base, {"rearm", "complete"})
        BY <1>3, <2>2, <3>1 DEF Woken
      <4> QED BY <1>3, <4>1, WakeCount
    <3>2. CASE i \notin Listed BY <1>3, <2>2, <3>2, WakeCount
    <3> QED BY <3>1, <3>2
  <2> QED BY <2>1, <2>2
<1> QED BY <1>1, <1>2, <1>3, Inductive, PTL DEF Spec
=============================================================================
