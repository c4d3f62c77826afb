-------------------------- MODULE SnaDisplayProofs --------------------------
(***************************************************************************)
(* Page flips, TearFree and modes, for any number of CRTCs, framebuffers   *)
(* and vblank events: every flip that is counted is with the kernel, in    *)
(* the queue or in the buffer of one sna_mode_wakeup, and what a CRTC is   *)
(* taken to show is what it shows.                                         *)
(***************************************************************************)
EXTENDS SnaDisplay, SnaInduction, SequenceTheorems, FiniteSetTheorems

-----------------------------------------------------------------------------
(* The functions that are active, counted from the outermost.                *)

Under(st, d) == st[Len(st) + 1 - d]

\* A function is called.
LEMMA PushFacts ==
  ASSUME NEW T, NEW st \in Seq(T), NEW f \in T
  PROVE  LET su == <<f>> \o st IN
         /\ su \in Seq(T) /\ Len(su) = Len(st) + 1 /\ su # <<>> /\ Head(su) = f /\ Tail(su) = st
         /\ Under(su, Len(su)) = f
         /\ \A d \in 1..Len(st) : Under(su, d) = Under(st, d)
<1> DEFINE su == <<f>> \o st
<1>1. <<f>> \in Seq(T) /\ Len(<<f>>) = 1 /\ <<f>>[1] = f OBVIOUS
<1>2. /\ su \in Seq(T) /\ Len(su) = 1 + Len(st)
      /\ \A i \in 1..(1 + Len(st)) : su[i] = IF i <= 1 THEN <<f>>[i] ELSE st[i - 1]
  BY <1>1, ConcatProperties
<1>3. Len(st) \in Nat OBVIOUS
<1>4. su[1] = f BY <1>1, <1>2, <1>3
<1>5. \A i \in 1..Len(st) : su[i + 1] = st[i] BY <1>2, <1>3
<1> HIDE DEF su
<1>6. su # <<>> /\ Head(su) = f BY <1>2, <1>3, <1>4
<1>7. Tail(su) = st
  <2>1. Tail(su) \in Seq(T) /\ Len(Tail(su)) = Len(st) BY <1>2, <1>3, <1>6, HeadTailProperties
  <2>2. \A i \in 1..Len(st) : Tail(su)[i] = su[i + 1] BY <1>2, <1>3, <1>6, <2>1, HeadTailProperties
  <2> QED BY <1>5, <2>1, <2>2, SeqEqual
<1>8. Under(su, Len(su)) = f BY <1>2, <1>3, <1>4 DEF Under
<1>9. ASSUME NEW d \in 1..Len(st) PROVE Under(su, d) = Under(st, d)
  <2>1. Len(st) + 1 - d \in 1..Len(st) BY <1>3
  <2>2. su[Len(st) + 1 - d + 1] = st[Len(st) + 1 - d] BY <1>5, <2>1
  <2>3. Len(su) + 1 - d = Len(st) + 1 - d + 1 BY <1>2, <1>3
  <2> QED BY <2>2, <2>3 DEF Under
<1> QED BY <1>2, <1>3, <1>6, <1>7, <1>8, <1>9 DEF su

\* It returns.
LEMMA PopFacts ==
  ASSUME NEW T, NEW st \in Seq(T), st # <<>>
  PROVE  LET su == Tail(st) IN
         /\ su \in Seq(T) /\ Len(su) = Len(st) - 1 /\ Len(st) \in Nat \ {0}
         /\ Head(st) \in T /\ Under(st, Len(st)) = Head(st)
         /\ \A d \in 1..Len(su) : Under(su, d) = Under(st, d)
<1> DEFINE su == Tail(st)
<1>1. Len(st) \in Nat \ {0} BY EmptySeq
<1>2. /\ su \in Seq(T) /\ Len(su) = Len(st) - 1 /\ Head(st) \in T /\ Head(st) = st[1]
      /\ \A i \in 1..Len(su) : su[i] = st[i + 1]
  BY <1>1, HeadTailProperties
<1> HIDE DEF su
<1>3. Under(st, Len(st)) = Head(st) BY <1>1, <1>2 DEF Under
<1>4. ASSUME NEW d \in 1..Len(su) PROVE Under(su, d) = Under(st, d)
  <2>1. Len(su) + 1 - d \in 1..Len(su) BY <1>1, <1>2
  <2>2. su[Len(su) + 1 - d] = st[Len(su) + 1 - d + 1] BY <1>2, <2>1
  <2>3. Len(st) + 1 - d = Len(su) + 1 - d + 1 BY <1>1, <1>2
  <2> QED BY <2>2, <2>3 DEF Under
<1> QED BY <1>1, <1>2, <1>3, <1>4 DEF su

-----------------------------------------------------------------------------
(* Where the event of a flip is: in the queue of the kernel (d = 0), or in   *)
(* the buffer of a function that reads, d from the outermost.                *)

Slot(q, st, d, k, c) ==
  \/ d = 0 /\ k \in DOMAIN q /\ q[k] = FlipOf(c)
  \/ /\ d \in 1..Len(st) /\ Under(st, d).at = "read"
     /\ k \in DOMAIN Under(st, d).buffer /\ Under(st, d).buffer[k] = FlipOf(c)
\* Somewhere; in one place at most.
Some(q, st, c) == \E d, k \in Nat : Slot(q, st, d, k, c)
Once(q, st, c) ==
  \A d, e, j, k \in Nat : Slot(q, st, d, j, c) /\ Slot(q, st, e, k, c) => d = e /\ j = k

\* The events of c are where they were, if elsewhere.
Like(q, st, r, su, c) ==
  /\ Some(r, su, c) <=> Some(q, st, c)
  /\ Once(q, st, c) => Once(r, su, c)
Equal(q, st, r, su, c) == \A d, k \in Nat : Slot(r, su, d, k, c) <=> Slot(q, st, d, k, c)

\* Events are told apart.
LEMMA EventFacts ==
  /\ \A c, d : FlipOf(c) = FlipOf(d) => c = d
  /\ \A c, v : FlipOf(c) # VblankOf(v)
  /\ \A c \in Crtcs : FlipOf(c) \in Event
  /\ \A v \in Vblanks : VblankOf(v) \in Event
  /\ \A e \in Event : (\E c \in Crtcs : e = FlipOf(c)) \/ (\E v \in Vblanks : e = VblankOf(v))
<1>1. \A c, d : FlipOf(c) = FlipOf(d) => c = d
  <2>1. ASSUME NEW c, NEW d, FlipOf(c) = FlipOf(d) PROVE c = d
    <3>1. FlipOf(c).of = c /\ FlipOf(d).of = d BY DEF FlipOf
    <3> QED BY <2>1, <3>1
  <2> QED BY <2>1
<1>2. \A c, v : FlipOf(c) # VblankOf(v)
  <2>1. ASSUME NEW c, NEW v PROVE FlipOf(c).type = "flip" /\ VblankOf(v).type = "vblank"
    BY DEF FlipOf, VblankOf
  <2>2. "flip" # "vblank" OBVIOUS
  <2> QED BY <2>1, <2>2
<1>3. \A c \in Crtcs : FlipOf(c) \in Event BY DEF FlipOf, Event
<1>4. \A v \in Vblanks : VblankOf(v) \in Event BY DEF VblankOf, Event
<1>5. ASSUME NEW e \in Event
      PROVE  (\E c \in Crtcs : e = FlipOf(c)) \/ (\E v \in Vblanks : e = VblankOf(v))
  <2>1. CASE e \in [type : {"flip"}, of : Crtcs]
    <3>1. e.of \in Crtcs /\ e = FlipOf(e.of) BY <2>1 DEF FlipOf
    <3> QED BY <3>1
  <2>2. CASE e \in [type : {"vblank"}, of : Vblanks]
    <3>1. e.of \in Vblanks /\ e = VblankOf(e.of) BY <2>2 DEF VblankOf
    <3> QED BY <3>1
  <2> QED BY <2>1, <2>2 DEF Event
<1> QED BY <1>1, <1>2, <1>3, <1>4, <1>5

\* The frames are told apart.
LEMMA FrameFacts ==
  /\ Read \in Frame /\ Read.at = "read" /\ Read.buffer = <<>>
  /\ \A n \in Nat \ {0} : Flush(n) \in Frame /\ Flush(n).at = "flush" /\ Flush(n).n = n
  /\ PresentFlips \in Frame /\ PresentFlips.at = "present"
  /\ Failed \in Frame /\ Failed.at = "failed"
  /\ Notify \in Frame /\ Notify.at = "notify"
  /\ \A f \in Frame : f.at = "read" => f = [at |-> "read", buffer |-> f.buffer] /\ f.buffer \in Seq(Event)
  /\ \A f \in Frame : f.at = "flush" => f.n \in Nat \ {0}
  /\ \A b \in Seq(Event) : [at |-> "read", buffer |-> b] \in Frame
  /\ \A f \in Frame : f.at \in {"read", "flush", "present", "failed", "notify"}
<1>1. <<>> \in Seq(Event) OBVIOUS
<1>2. Read \in Frame /\ Read.at = "read" /\ Read.buffer = <<>> BY <1>1 DEF Read, Frame
<1>3. \A n \in Nat \ {0} : Flush(n) \in Frame /\ Flush(n).at = "flush" /\ Flush(n).n = n
  BY DEF Flush, Frame
<1>4. PresentFlips \in Frame /\ PresentFlips.at = "present" BY DEF PresentFlips, Frame
<1>5. Failed \in Frame /\ Failed.at = "failed" BY DEF Failed, Frame
<1>6. Notify \in Frame /\ Notify.at = "notify" BY DEF Notify, Frame
<1>7. \A f \in Frame : f.at = "read" => f = [at |-> "read", buffer |-> f.buffer] /\ f.buffer \in Seq(Event)
  BY DEF Frame
<1>8. \A f \in Frame : f.at = "flush" => f.n \in Nat \ {0} BY DEF Frame
<1>9. \A b \in Seq(Event) : [at |-> "read", buffer |-> b] \in Frame BY DEF Frame
<1>10. \A f \in Frame : f.at \in {"read", "flush", "present", "failed", "notify"} BY DEF Frame
<1> QED BY <1>2, <1>3, <1>4, <1>5, <1>6, <1>7, <1>8, <1>9, <1>10

\* Where the events are decides all that is said of them.
LEMMA EqualLike ==
  ASSUME NEW q, NEW st, NEW r, NEW su, NEW c, Equal(q, st, r, su, c) PROVE Like(q, st, r, su, c)
BY DEF Equal, Like, Some, Once

\* A function is called that has read nothing.
LEMMA PushSlots ==
  ASSUME NEW q, NEW st \in Seq(Frame), NEW f \in Frame, f.at = "read" => f.buffer = <<>>, NEW c
  PROVE  Equal(q, st, q, <<f>> \o st, c)
<1> DEFINE su == <<f>> \o st
<1>1. /\ Len(su) = Len(st) + 1 /\ Under(su, Len(su)) = f
      /\ \A d \in 1..Len(st) : Under(su, d) = Under(st, d)
  BY PushFacts
<1> HIDE DEF su
<1>2. Len(st) \in Nat OBVIOUS
<1>3. SUFFICES ASSUME NEW d \in Nat, NEW k \in Nat PROVE Slot(q, su, d, k, c) <=> Slot(q, st, d, k, c)
  BY DEF Equal, su
<1>4. CASE d \in 1..Len(st)
  <2>1. d \in 1..Len(su) BY <1>1, <1>2, <1>4
  <2> QED BY <1>1, <1>4, <2>1 DEF Slot
<1>5. CASE d = Len(su)
  <2>1. ~ Slot(q, su, d, k, c)
    <3>1. d # 0 BY <1>1, <1>2, <1>5
    <3>2. Under(su, d) = f BY <1>1, <1>5
    <3>3. DOMAIN <<>> = {} OBVIOUS
    <3> QED BY <3>1, <3>2, <3>3 DEF Slot
  <2>2. d # 0 /\ d \notin 1..Len(st) BY <1>1, <1>2, <1>5
  <2> QED BY <2>1, <2>2 DEF Slot
<1>6. CASE d \notin 1..Len(su)
  <2>1. d \notin 1..Len(st) BY <1>1, <1>2, <1>6
  <2> QED BY <1>6, <2>1 DEF Slot
<1> QED BY <1>1, <1>2, <1>4, <1>5, <1>6

\* A function returns that has handled all it has read.
LEMMA PopSlots ==
  ASSUME NEW q, NEW st \in Seq(Frame), st # <<>>,
         Head(st).at = "read" => Head(st).buffer = <<>>, NEW c
  PROVE  Equal(q, st, q, Tail(st), c)
<1> DEFINE su == Tail(st)
<1>1. /\ Len(su) = Len(st) - 1 /\ Len(st) \in Nat \ {0} /\ Under(st, Len(st)) = Head(st)
      /\ \A d \in 1..Len(su) : Under(su, d) = Under(st, d)
  BY PopFacts
<1> HIDE DEF su
<1>3. SUFFICES ASSUME NEW d \in Nat, NEW k \in Nat PROVE Slot(q, su, d, k, c) <=> Slot(q, st, d, k, c)
  BY DEF Equal, su
<1>4. CASE d \in 1..Len(su)
  <2>1. d \in 1..Len(st) BY <1>1, <1>4
  <2> QED BY <1>1, <1>4, <2>1 DEF Slot
<1>5. CASE d = Len(st)
  <2>1. ~ Slot(q, st, d, k, c)
    <3>1. d # 0 BY <1>1, <1>5
    <3>2. Under(st, d) = Head(st) BY <1>1, <1>5
    <3>3. DOMAIN <<>> = {} OBVIOUS
    <3> QED BY <3>1, <3>2, <3>3 DEF Slot
  <2>2. d # 0 /\ d \notin 1..Len(su) BY <1>1, <1>5
  <2> QED BY <2>1, <2>2 DEF Slot
<1>6. CASE d \notin 1..Len(st)
  <2>1. d \notin 1..Len(su) BY <1>1, <1>6
  <2> QED BY <1>6, <2>1 DEF Slot
<1> QED BY <1>1, <1>4, <1>5, <1>6

\* Where the events are is passed on.
LEMMA EqualTrans ==
  ASSUME NEW q, NEW st, NEW r, NEW su, NEW p, NEW sv, NEW c,
         Equal(q, st, r, su, c), Equal(r, su, p, sv, c)
  PROVE  Equal(q, st, p, sv, c)
BY DEF Equal

\* What runs last has changed.
LEMMA TopFacts ==
  ASSUME NEW T, NEW st \in Seq(T), st # <<>>, NEW f \in T
  PROVE  LET su == <<f>> \o Tail(st) IN
         /\ su \in Seq(T) /\ Len(su) = Len(st) /\ Len(st) \in Nat \ {0} /\ su # <<>>
         /\ Head(su) = f /\ Tail(su) = Tail(st)
         /\ Under(su, Len(st)) = f /\ Under(st, Len(st)) = Head(st)
         /\ \A d \in 1..(Len(st) - 1) : Under(su, d) = Under(st, d)
<1> DEFINE t == Tail(st)
           su == <<f>> \o t
<1>1. /\ t \in Seq(T) /\ Len(t) = Len(st) - 1 /\ Len(st) \in Nat \ {0}
      /\ Under(st, Len(st)) = Head(st)
      /\ \A d \in 1..Len(t) : Under(t, d) = Under(st, d)
  BY PopFacts
<1> HIDE DEF t
<1>2. /\ su \in Seq(T) /\ Len(su) = Len(t) + 1 /\ su # <<>> /\ Head(su) = f /\ Tail(su) = t
      /\ Under(su, Len(su)) = f
      /\ \A d \in 1..Len(t) : Under(su, d) = Under(t, d)
  BY <1>1, PushFacts
<1> HIDE DEF su
<1>3. Len(su) = Len(st) BY <1>1, <1>2
<1> QED BY <1>1, <1>2, <1>3 DEF su, t

\* Reading moves what is in the queue to the buffer.
LEMMA ReadSlots ==
  ASSUME NEW q \in Seq(Event), NEW st \in Seq(Frame), st # <<>>,
         Head(st).at = "read", Head(st).buffer = <<>>, NEW c
  PROVE  LET su == <<[Head(st) EXCEPT !.buffer = q]>> \o Tail(st) IN
         su \in Seq(Frame) /\ Like(q, st, <<>>, su, c)
<1> DEFINE f == [Head(st) EXCEPT !.buffer = q]
           su == <<f>> \o Tail(st)
           n == Len(st)
<1>1. Head(st) \in Frame BY PopFacts
<1>2. Head(st) = [at |-> "read", buffer |-> <<>>] BY <1>1, FrameFacts
<1>3. f = [at |-> "read", buffer |-> q] BY <1>2
<1> HIDE DEF f
<1>4. f \in Frame /\ f.at = "read" /\ f.buffer = q BY <1>3, FrameFacts
<1>5. /\ su \in Seq(Frame) /\ Len(su) = n /\ n \in Nat \ {0}
      /\ Under(su, n) = f /\ Under(st, n) = Head(st)
      /\ \A d \in 1..(n - 1) : Under(su, d) = Under(st, d)
  BY <1>4, TopFacts
<1> HIDE DEF su, n
<1>6. DOMAIN <<>> = {} OBVIOUS
<1>7. ASSUME NEW d \in Nat, NEW k \in Nat
      PROVE  /\ d = n => (Slot(<<>>, su, d, k, c) <=> Slot(q, st, 0, k, c)) /\ ~ Slot(q, st, d, k, c)
             /\ d = 0 => ~ Slot(<<>>, su, d, k, c)
             /\ d # 0 /\ d # n => (Slot(<<>>, su, d, k, c) <=> Slot(q, st, d, k, c))
  <2>1. CASE d = n
    <3>1. Slot(<<>>, su, d, k, c) <=> k \in DOMAIN q /\ q[k] = FlipOf(c)
      BY <1>4, <1>5, <1>6, <2>1 DEF Slot
    <3>2. Slot(q, st, 0, k, c) <=> k \in DOMAIN q /\ q[k] = FlipOf(c) BY DEF Slot
    <3>3. ~ Slot(q, st, d, k, c)
      <4>1. d # 0 /\ Under(st, d).buffer = <<>> BY <1>5, <2>1
      <4> QED BY <1>6, <4>1 DEF Slot
    <3> QED BY <1>5, <2>1, <3>1, <3>2, <3>3
  <2>2. CASE d = 0
    <3>1. 0 \notin 1..Len(su) BY <1>5
    <3> QED BY <1>5, <1>6, <2>2, <3>1 DEF Slot
  <2>3. CASE d # 0 /\ d # n
    <3>1. CASE d \in 1..(n - 1)
      <4>1. d \in 1..Len(su) /\ d \in 1..Len(st) BY <1>5, <3>1 DEF n
      <4> QED BY <1>5, <2>3, <3>1, <4>1 DEF Slot
    <3>2. CASE d \notin 1..(n - 1)
      <4>1. d \notin 1..Len(su) /\ d \notin 1..Len(st) BY <1>5, <2>3, <3>2 DEF n
      <4> QED BY <2>3, <4>1 DEF Slot
    <3> QED BY <3>1, <3>2
  <2> QED BY <2>1, <2>2, <2>3, <1>5
<1>8. Some(<<>>, su, c) => Some(q, st, c)
  <2>1. SUFFICES ASSUME NEW d \in Nat, NEW k \in Nat, Slot(<<>>, su, d, k, c) PROVE Some(q, st, c)
    BY DEF Some
  <2> QED BY <1>7, <2>1 DEF Some
<1>9. Some(q, st, c) => Some(<<>>, su, c)
  <2>1. SUFFICES ASSUME NEW d \in Nat, NEW k \in Nat, Slot(q, st, d, k, c) PROVE Some(<<>>, su, c)
    BY DEF Some
  <2>2. n \in Nat BY <1>5
  <2>3. CASE d = 0 BY <1>7, <2>1, <2>2, <2>3 DEF Some
  <2>4. CASE d # 0 BY <1>7, <2>1, <2>4 DEF Some
  <2> QED BY <2>3, <2>4
<1>10. Once(q, st, c) => Once(<<>>, su, c)
  <2>1. SUFFICES ASSUME Once(q, st, c), NEW d \in Nat, NEW e \in Nat, NEW j \in Nat, NEW k \in Nat,
                        Slot(<<>>, su, d, j, c), Slot(<<>>, su, e, k, c)
                 PROVE  d = e /\ j = k
    BY DEF Once
  <2>2. d # 0 /\ e # 0 BY <1>7, <2>1
  <2>3. CASE d = n /\ e = n BY <1>7, <2>1, <2>3 DEF Once
  <2>4. CASE d = n /\ e # n
    <3>1. Slot(q, st, 0, j, c) /\ Slot(q, st, e, k, c) BY <1>7, <2>1, <2>2, <2>4
    <3> QED BY <2>1, <2>2, <3>1 DEF Once
  <2>5. CASE d # n /\ e = n
    <3>1. Slot(q, st, d, j, c) /\ Slot(q, st, 0, k, c) BY <1>7, <2>1, <2>2, <2>5
    <3> QED BY <2>1, <2>2, <3>1 DEF Once
  <2>6. CASE d # n /\ e # n
    <3>1. Slot(q, st, d, j, c) /\ Slot(q, st, e, k, c) BY <1>7, <2>1, <2>2, <2>6
    <3> QED BY <2>1, <3>1 DEF Once
  <2> QED BY <2>3, <2>4, <2>5, <2>6
<1> QED BY <1>5, <1>8, <1>9, <1>10 DEF Like, su, f

\* An event is taken from the buffer.
Taken(st) == <<[Head(st) EXCEPT !.buffer = Tail(@)]>> \o Tail(st)
LEMMA TakeSlots ==
  ASSUME NEW q \in Seq(Event), NEW st \in Seq(Frame), st # <<>>,
         Head(st).at = "read", Head(st).buffer # <<>>, NEW c
  PROVE  /\ Taken(st) \in Seq(Frame) /\ Head(Head(st).buffer) \in Event
         /\ Taken(st) # <<>> /\ Head(Taken(st)).at = "read"
         /\ Len(Taken(st)) = Len(st)
         /\ \A d \in 1..Len(st) : Under(Taken(st), d).at = Under(st, d).at
         /\ Head(Head(st).buffer) # FlipOf(c) => Like(q, st, q, Taken(st), c)
         /\ Head(Head(st).buffer) = FlipOf(c) => Some(q, st, c)
         /\ Head(Head(st).buffer) = FlipOf(c) /\ Once(q, st, c) =>
              Once(q, Taken(st), c) /\ ~ Some(q, Taken(st), c)
         /\ \A d, k \in Nat : Slot(q, Taken(st), d, k, c) => \E j \in Nat : Slot(q, st, d, j, c)
<1> DEFINE b == Head(st).buffer
           f == [Head(st) EXCEPT !.buffer = Tail(@)]
           su == Taken(st)
           n == Len(st)
<1>1. Head(st) \in Frame BY PopFacts
<1>2. Head(st) = [at |-> "read", buffer |-> b] /\ b \in Seq(Event) BY <1>1, FrameFacts
<1>3. f = [at |-> "read", buffer |-> Tail(b)]
  <2> DEFINE h == Head(st)
             t == Tail(b)
  <2>1. h = [at |-> "read", buffer |-> b] /\ f = [h EXCEPT !.buffer = t] BY <1>2
  <2> HIDE DEF h, t, b, f
  <2>2. [h EXCEPT !.buffer = t] = [at |-> "read", buffer |-> t] BY <2>1
  <2> QED BY <2>1, <2>2 DEF t
<1>a. su = <<f>> \o Tail(st) BY DEF Taken
<1> HIDE DEF f, b, su
<1>b. b # <<>> BY DEF b
<1>c. /\ Tail(b) \in Seq(Event) /\ Len(b) \in Nat \ {0} /\ Len(Tail(b)) = Len(b) - 1
      /\ Head(b) = b[1] /\ Head(b) \in Event /\ \A k \in 1..Len(Tail(b)) : Tail(b)[k] = b[k + 1]
  <2>1. Len(b) \in Nat \ {0} BY <1>2, <1>b, EmptySeq
  <2> QED BY <1>2, <1>b, <2>1, HeadTailProperties
<1>d. DOMAIN b = 1..Len(b) /\ DOMAIN Tail(b) = 1..Len(Tail(b)) BY <1>2, <1>c
<1>4. f \in Frame /\ f.at = "read" /\ f.buffer = Tail(b) BY <1>3, <1>c, FrameFacts
<1>5. /\ su \in Seq(Frame) /\ Len(su) = n /\ n \in Nat \ {0} /\ su # <<>> /\ Head(su) = f
      /\ Under(su, n) = f /\ Under(st, n) = Head(st)
      /\ \A d \in 1..(n - 1) : Under(su, d) = Under(st, d)
  <2> DEFINE sv == <<f>> \o Tail(st)
  <2>1. /\ sv \in Seq(Frame) /\ Len(sv) = n /\ n \in Nat \ {0} /\ sv # <<>> /\ Head(sv) = f
        /\ Under(sv, n) = f /\ Under(st, n) = Head(st)
        /\ \A d \in 1..(n - 1) : Under(sv, d) = Under(st, d)
    BY <1>4, TopFacts
  <2>2. su = sv BY <1>a
  <2> HIDE DEF sv
  <2> QED BY <2>1, <2>2
<1>e. Under(st, n).at = "read" /\ Under(st, n).buffer = b BY <1>2, <1>5
<1>n. n = Len(st) OBVIOUS
<1> HIDE DEF n
<1>7. ASSUME NEW d \in Nat, NEW k \in Nat
      PROVE  /\ d = n /\ k # 0 => (Slot(q, su, d, k, c) <=> Slot(q, st, d, k + 1, c))
             /\ d = n /\ k = 0 => ~ Slot(q, su, d, k, c) /\ ~ Slot(q, st, d, k, c)
             /\ d # n => (Slot(q, su, d, k, c) <=> Slot(q, st, d, k, c))
  <2>1. CASE d = n
    <3>0. d # 0 /\ d \in 1..Len(su) /\ d \in 1..Len(st) BY <1>5, <1>n, <2>1
    <3>1. Slot(q, su, d, k, c) <=> k \in 1..Len(Tail(b)) /\ Tail(b)[k] = FlipOf(c)
      BY <1>4, <1>5, <1>d, <2>1, <3>0 DEF Slot
    <3>2. \A j \in Nat : Slot(q, st, d, j, c) <=> j \in 1..Len(b) /\ b[j] = FlipOf(c)
      BY <1>d, <1>e, <2>1, <3>0 DEF Slot
    <3>3. CASE k # 0
      <4>1. k + 1 \in 1..Len(b) <=> k \in 1..Len(Tail(b)) BY <1>c, <3>3
      <4> QED BY <1>c, <2>1, <3>1, <3>2, <3>3, <4>1
    <3>4. CASE k = 0
      <4>1. 0 \notin 1..Len(Tail(b)) /\ 0 \notin 1..Len(b) BY <1>c
      <4> QED BY <2>1, <3>1, <3>2, <3>4, <4>1
    <3> QED BY <2>1, <3>3, <3>4
  <2>2. CASE d # n
    <3>1. CASE d \in 1..(n - 1)
      <4>1. d \in 1..Len(su) /\ d \in 1..Len(st) BY <1>5, <1>n, <3>1
      <4> QED BY <1>5, <2>2, <3>1, <4>1 DEF Slot
    <3>2. CASE d \notin 1..(n - 1)
      <4>1. d \notin 1..Len(su) /\ d \notin 1..Len(st) BY <1>5, <1>n, <2>2, <3>2
      <4> QED BY <2>2, <4>1 DEF Slot
    <3> QED BY <3>1, <3>2
  <2> QED BY <2>1, <2>2
<1>8. Slot(q, st, n, 1, c) <=> Head(b) = FlipOf(c)
  <2>1. n \in 1..Len(st) /\ n # 0 /\ 1 \in 1..Len(b) BY <1>5, <1>c, <1>n
  <2> QED BY <1>c, <1>d, <1>e, <2>1 DEF Slot
<1>9. ASSUME NEW d \in Nat, NEW k \in Nat, Slot(q, su, d, k, c)
      PROVE  \E j \in Nat : Slot(q, st, d, j, c) /\ (d = n => j = k + 1 /\ k # 0) /\ (d # n => j = k)
  <2>1. CASE d = n
    <3>1. k # 0 /\ k + 1 \in Nat BY <1>7, <1>9, <2>1
    <3> QED BY <1>7, <1>9, <2>1, <3>1
  <2>2. CASE d # n BY <1>7, <1>9, <2>2
  <2> QED BY <2>1, <2>2
<1>10. Once(q, st, c) => Once(q, su, c)
  <2>1. SUFFICES ASSUME Once(q, st, c), NEW d \in Nat, NEW e \in Nat, NEW j \in Nat, NEW k \in Nat,
                        Slot(q, su, d, j, c), Slot(q, su, e, k, c)
                 PROVE  d = e /\ j = k
    BY DEF Once
  <2>2. PICK x \in Nat : Slot(q, st, d, x, c) /\ (d = n => x = j + 1) /\ (d # n => x = j) BY <1>9, <2>1, ZenonT(60)
  <2>3. PICK y \in Nat : Slot(q, st, e, y, c) /\ (e = n => y = k + 1) /\ (e # n => y = k) BY <1>9, <2>1, ZenonT(60)
  <2>4. d = e /\ x = y BY <2>1, <2>2, <2>3 DEF Once
  <2> QED BY <2>1, <2>2, <2>3, <2>4
<1>11. Some(q, su, c) => Some(q, st, c)
  <2>1. SUFFICES ASSUME NEW d \in Nat, NEW k \in Nat, Slot(q, su, d, k, c) PROVE Some(q, st, c)
    BY DEF Some
  <2>2. PICK j \in Nat : Slot(q, st, d, j, c) BY <1>9, <2>1
  <2> QED BY <2>2 DEF Some
<1>12. ASSUME Head(b) # FlipOf(c), Some(q, st, c) PROVE Some(q, su, c)
  <2>1. PICK d \in Nat, k \in Nat : Slot(q, st, d, k, c) BY <1>12 DEF Some
  <2>2. CASE d # n BY <1>7, <2>1, <2>2 DEF Some
  <2>3. CASE d = n
    <3>1. k # 0 BY <1>7, <2>1, <2>3
    <3>2. k # 1 BY <1>8, <1>12, <2>1, <2>3
    <3>3. k - 1 \in Nat /\ k - 1 # 0 /\ k - 1 + 1 = k BY <3>1, <3>2
    <3>4. Slot(q, su, d, k - 1, c) BY <1>7, <2>1, <2>3, <3>3
    <3> QED BY <3>3, <3>4 DEF Some
  <2> QED BY <2>2, <2>3
<1>13. Head(b) = FlipOf(c) => Some(q, st, c)
  <2>1. n \in Nat BY <1>5
  <2> QED BY <1>8, <2>1 DEF Some
<1>14. ASSUME Head(b) = FlipOf(c), Once(q, st, c), Some(q, su, c) PROVE FALSE
  <2>1. PICK d \in Nat, k \in Nat : Slot(q, su, d, k, c) BY <1>14 DEF Some
  <2>2. PICK j \in Nat : Slot(q, st, d, j, c) /\ (d = n => j = k + 1 /\ k # 0) BY <1>9, <2>1
  <2>3. d = n /\ j = 1
    <3>1. n \in Nat /\ 1 \in Nat /\ Slot(q, st, n, 1, c) BY <1>5, <1>8, <1>14
    <3> QED BY <1>14, <2>2, <3>1 DEF Once
  <2> QED BY <2>1, <2>2, <2>3
<1>15. \A d \in 1..n : Under(su, d).at = Under(st, d).at
  <2>1. SUFFICES ASSUME NEW d \in 1..n PROVE Under(su, d).at = Under(st, d).at OBVIOUS
  <2>2. CASE d = n BY <1>4, <1>5, <1>e, <2>2
  <2>3. CASE d # n
    <3>1. d \in 1..(n - 1) BY <1>5, <2>3
    <3> QED BY <1>5, <3>1
  <2> QED BY <2>2, <2>3
<1>16. \A d, k \in Nat : Slot(q, su, d, k, c) => \E j \in Nat : Slot(q, st, d, j, c) BY <1>9
<1> QED
  BY <1>4, <1>5, <1>c, <1>10, <1>11, <1>12, <1>13, <1>14, <1>15, <1>16, <1>n DEF Like, b, su

-----------------------------------------------------------------------------
(* The events of the flips that a mode ends.                                 *)

\* The event of c is not among p; it is, once.
NoneOf(p, c) == \A k \in DOMAIN p : p[k] # FlipOf(c)
OneOf(p, c) == \E k \in DOMAIN p : p[k] = FlipOf(c) /\ \A j \in DOMAIN p : p[j] = FlipOf(c) => j = k

\* An event more.
LEMMA AppendFacts ==
  ASSUME NEW p \in Seq(Event), NEW e \in Event
  PROVE  /\ Append(p, e) \in Seq(Event) /\ DOMAIN Append(p, e) = 1..(Len(p) + 1) /\ DOMAIN p = 1..Len(p)
         /\ Len(p) \in Nat /\ Append(p, e)[Len(p) + 1] = e
         /\ \A k \in 1..Len(p) : Append(p, e)[k] = p[k]
         /\ \A k \in 1..(Len(p) + 1) : k \in 1..Len(p) \/ k = Len(p) + 1
OBVIOUS

\* It is the event of d.
LEMMA AppendOneOf ==
  ASSUME NEW p \in Seq(Event), NEW d \in Crtcs, NEW c
  PROVE  LET r == Append(p, FlipOf(d)) IN
         /\ r \in Seq(Event)
         /\ c = d /\ NoneOf(p, c) => OneOf(r, c)
         /\ c # d /\ NoneOf(p, c) => NoneOf(r, c)
         /\ c # d /\ OneOf(p, c) => OneOf(r, c)
<1> DEFINE r == Append(p, FlipOf(d))
           n == Len(p)
<1>1. FlipOf(d) \in Event /\ (c # d => FlipOf(d) # FlipOf(c)) BY EventFacts
<1>2. /\ r \in Seq(Event) /\ DOMAIN r = 1..(n + 1) /\ DOMAIN p = 1..n /\ n \in Nat
      /\ r[n + 1] = FlipOf(d) /\ \A k \in 1..n : r[k] = p[k]
      /\ \A k \in 1..(n + 1) : k \in 1..n \/ k = n + 1
  BY <1>1, AppendFacts
<1>3. n + 1 \in 1..(n + 1) /\ n + 1 \notin 1..n /\ \A k \in 1..n : k \in 1..(n + 1) BY <1>2
<1> HIDE DEF r, n
<1>4. ASSUME c = d, NoneOf(p, c) PROVE OneOf(r, c)
  <2>1. r[n + 1] = FlipOf(c) BY <1>2, <1>4
  <2>2. ASSUME NEW j \in DOMAIN r, r[j] = FlipOf(c) PROVE j = n + 1
    <3>1. j \notin 1..n BY <1>2, <1>4, <2>2 DEF NoneOf
    <3> QED BY <1>2, <3>1, <2>2
  <2> QED BY <1>2, <1>3, <2>1, <2>2 DEF OneOf
<1>5. ASSUME c # d, NoneOf(p, c) PROVE NoneOf(r, c)
  <2>1. ASSUME NEW j \in DOMAIN r PROVE r[j] # FlipOf(c)
    <3>1. CASE j \in 1..n BY <1>2, <1>5, <3>1 DEF NoneOf
    <3>2. CASE j = n + 1 BY <1>1, <1>2, <1>5, <3>2
    <3> QED BY <1>2, <2>1, <3>1, <3>2
  <2> QED BY <2>1 DEF NoneOf
<1>6. ASSUME c # d, OneOf(p, c) PROVE OneOf(r, c)
  <2>1. PICK k \in DOMAIN p : p[k] = FlipOf(c) /\ \A j \in DOMAIN p : p[j] = FlipOf(c) => j = k
    BY <1>6 DEF OneOf
  <2>2. k \in DOMAIN r /\ r[k] = FlipOf(c) BY <1>2, <1>3, <2>1
  <2>3. ASSUME NEW j \in DOMAIN r, r[j] = FlipOf(c) PROVE j = k
    <3>1. j \in 1..n BY <1>1, <1>2, <1>6, <2>3
    <3> QED BY <1>2, <2>1, <2>3, <3>1
  <2> QED BY <2>2, <2>3 DEF OneOf
<1> QED BY <1>2, <1>4, <1>5, <1>6 DEF r

\* A mode that is set on cs ends the flips of cs, each with an event.
LEMMA EndedFacts ==
  ASSUME NEW s, NEW cs
  PROVE  /\ Ended(s, cs) \in Seq(Event)
         /\ \A c \in Crtcs : IF c \in cs /\ s.flying[c] # None THEN OneOf(Ended(s, cs), c)
                             ELSE NoneOf(Ended(s, cs), c)
<1> DEFINE N == num_real_crtc
           T == Seq(Event)
           E(n) == n \in cs /\ s.flying[n] # None
           h == [x \in T \X (1..N) |-> IF E(x[2]) THEN Append(x[1], FlipOf(x[2])) ELSE x[1]]
<1>1. N \in Nat /\ Crtcs = 1..N BY CrtcsAssumption DEF Crtcs
<1>2. Steps(h, T, N)
  <2>1. ASSUME NEW x \in T \X (1..N)
        PROVE  (IF E(x[2]) THEN Append(x[1], FlipOf(x[2])) ELSE x[1]) \in T
    <3>1. x[1] \in Seq(Event) /\ x[2] \in Crtcs BY <1>1
    <3>2. FlipOf(x[2]) \in Event BY <3>1, EventFacts
    <3>3. Append(x[1], FlipOf(x[2])) \in Seq(Event) BY <3>1, <3>2
    <3> QED BY <3>1, <3>3
  <2> QED BY <2>1 DEF Steps
<1>3. \A g \in T, n \in 1..N : h[<<g, n>>] = IF E(n) THEN Append(g, FlipOf(n)) ELSE g
  OBVIOUS
<1> HIDE DEF h
<1>4. PICK f \in [0..N -> T] : f[0] = <<>> /\ \A n \in 1..N : f[n] = h[<<f[n - 1], n>>]
  <2> DEFINE b == <<>>
  <2>1. b \in T OBVIOUS
  <2> HIDE DEF b, N, T
  <2>2. PICK f : Iterates(f, b, h, T, N) BY <1>1, <1>2, <2>1, Recursion
  <2> QED BY <2>2 DEF b, Iterates
<1>5. \A n \in 1..N : f[n - 1] \in T BY <1>1, <1>4
<1>6. \A n \in 1..N : f[n] = IF E(n) THEN Append(f[n - 1], FlipOf(n)) ELSE f[n - 1]
  BY <1>3, <1>4, <1>5
<1> DEFINE Def(g) == [n \in 0..num_real_crtc |->
             CASE n = 0 -> <<>> [] n > 0 /\ n \in cs /\ s.flying[n] # None -> Append(g[n - 1], FlipOf(n))
               [] OTHER -> g[n - 1]]
<1>7. f = Def(f)
  <2>1. ASSUME NEW n \in 0..N
        PROVE f[n] = CASE n = 0 -> <<>>
                       [] n > 0 /\ n \in cs /\ s.flying[n] # None -> Append(f[n - 1], FlipOf(n))
                       [] OTHER -> f[n - 1]
    <3>1. CASE n = 0 BY <1>4, <3>1
    <3>2. CASE n \in 1..N
      <4>1. n # 0 /\ n > 0 /\ n \in 1..N BY <1>1, <3>2
      <4>2. f[n] = IF E(n) THEN Append(f[n - 1], FlipOf(n)) ELSE f[n - 1] BY <1>6, <4>1
      <4>3. CASE E(n) BY <4>1, <4>2, <4>3
      <4>4. CASE ~ E(n) BY <4>1, <4>2, <4>4
      <4> QED BY <4>3, <4>4
    <3> QED BY <1>1, <3>1, <3>2
  <2> QED BY <1>4, <2>1
<1>8. ASSUME NEW g, g = Def(g) PROVE g[N] = f[N]
  <2> DEFINE M == {n \in Nat : n <= N => g[n] = f[n]}
  <2>1. \A n \in 0..N : g[n] = CASE n = 0 -> <<>>
                                 [] n > 0 /\ n \in cs /\ s.flying[n] # None -> Append(g[n - 1], FlipOf(n))
                                 [] OTHER -> g[n - 1]
    BY <1>8
  <2> HIDE DEF Def
  <2>2. 0 \in M BY <1>1, <1>4, <2>1
  <2>3. ASSUME NEW n \in M PROVE n + 1 \in M
    <3>1. SUFFICES ASSUME n + 1 <= N PROVE g[n + 1] = f[n + 1] BY <2>3
    <3>2. n \in Nat /\ g[n] = f[n] BY <2>3, <3>1, <1>1
    <3>3. n + 1 \in 1..N /\ n + 1 \in 0..N /\ n + 1 # 0 /\ n + 1 > 0 /\ n + 1 - 1 = n BY <3>1, <3>2
    <3>4. g[n + 1] = IF E(n + 1) THEN Append(g[n], FlipOf(n + 1)) ELSE g[n]
      BY <2>1, <3>3
    <3>5. f[n + 1] = IF E(n + 1) THEN Append(f[n], FlipOf(n + 1)) ELSE f[n]
      BY <1>6, <3>3
    <3> QED BY <3>2, <3>4, <3>5
  <2>4. N \in M BY <1>1, <2>2, <2>3, SetInduction
  <2> QED BY <1>1, <2>4
<1>9. Ended(s, cs) = f[N]
  <2> DEFINE g == CHOOSE g : g = Def(g)
  <2>1. g = Def(g)  BY <1>7, Zenon
  <2>2. Ended(s, cs) = g[N] BY DEF Ended
  <2> HIDE DEF g
  <2> QED BY <1>8, <2>1, <2>2
<1> DEFINE Kept(n) == \A c \in Crtcs : IF c <= n /\ E(c) THEN OneOf(f[n], c) ELSE NoneOf(f[n], c)
           M == {n \in Nat : n <= N => Kept(n)}
<1>10. Kept(0)
  <2>1. f[0] = <<>> /\ DOMAIN <<>> = {} BY <1>4
  <2>2. \A c \in Crtcs : NoneOf(f[0], c) /\ ~ (c <= 0) BY <1>1, <2>1 DEF NoneOf
  <2> QED BY <2>2
<1>11. ASSUME NEW n \in Nat, n + 1 <= N, Kept(n) PROVE Kept(n + 1)
  <2>1. n + 1 \in 1..N /\ n \in 0..N /\ n + 1 - 1 = n /\ n + 1 \in Crtcs BY <1>1, <1>11
  <2>2. f[n + 1] = IF E(n + 1) THEN Append(f[n], FlipOf(n + 1)) ELSE f[n] BY <1>6, <2>1
  <2>3. f[n] \in Seq(Event) BY <1>4, <2>1
  <2>4. SUFFICES ASSUME NEW c \in Crtcs
                 PROVE  IF c <= n + 1 /\ E(c) THEN OneOf(f[n + 1], c) ELSE NoneOf(f[n + 1], c)
    OBVIOUS
  <2>5. IF c <= n /\ E(c) THEN OneOf(f[n], c) ELSE NoneOf(f[n], c) BY <1>11
  <2>6. c \in Nat BY <1>1
  <2> DEFINE d == n + 1
  <2>7. c <= d <=> c <= n \/ c = d BY <2>6
  <2>8. ~ (d <= n) OBVIOUS
  <2>9. f[d] = IF E(d) THEN Append(f[n], FlipOf(d)) ELSE f[n] BY <2>2
  <2>10. d \in Crtcs BY <2>1
  <2> HIDE DEF d, E
  <2>11. CASE E(d)
    <3> DEFINE r == Append(f[n], FlipOf(d))
    <3>1. f[d] = r BY <2>9, <2>11
    <3>2. /\ c = d /\ NoneOf(f[n], c) => OneOf(r, c)
          /\ c # d /\ NoneOf(f[n], c) => NoneOf(r, c)
          /\ c # d /\ OneOf(f[n], c) => OneOf(r, c)
      <4> DEFINE p == f[n]
      <4>1. p \in Seq(Event) BY <2>3
      <4> HIDE DEF p
      <4>2. LET t == Append(p, FlipOf(d)) IN
            /\ c = d /\ NoneOf(p, c) => OneOf(t, c)
            /\ c # d /\ NoneOf(p, c) => NoneOf(t, c)
            /\ c # d /\ OneOf(p, c) => OneOf(t, c)
        BY <2>10, <4>1, AppendOneOf
      <4> QED BY <4>2 DEF p
    <3> HIDE DEF r
    <3>3. IF c <= d /\ E(c) THEN OneOf(f[d], c) ELSE NoneOf(f[d], c)
      BY <2>5, <2>7, <2>8, <2>11, <3>1, <3>2
    <3> QED BY <3>3 DEF d
  <2>12. CASE ~ E(d)
    <3>1. f[d] = f[n] BY <2>9, <2>12
    <3>2. IF c <= d /\ E(c) THEN OneOf(f[d], c) ELSE NoneOf(f[d], c)
      BY <2>5, <2>7, <2>8, <2>12, <3>1
    <3> QED BY <3>2 DEF d
  <2> QED BY <2>11, <2>12
<1>12. Kept(N)
  <2> HIDE DEF Kept
  <2>1. 0 \in M BY <1>10
  <2>2. \A n \in M : n + 1 \in M
    <3>1. ASSUME NEW n \in M, n + 1 <= N PROVE Kept(n + 1)
      <4>1. n \in Nat /\ n <= N BY <1>1, <3>1
      <4> QED BY <1>11, <3>1, <4>1
    <3> QED BY <3>1
  <2>3. N \in M BY <1>1, <2>1, <2>2, SetInduction
  <2> QED BY <1>1, <2>3
<1>13. f[N] \in Seq(Event) BY <1>1, <1>4
<1>14. ASSUME NEW c \in Crtcs
       PROVE  IF c \in cs /\ s.flying[c] # None THEN OneOf(f[N], c) ELSE NoneOf(f[N], c)
  <2>1. c <= N BY <1>1
  <2> QED BY <1>12, <2>1
<1> QED BY <1>9, <1>13, <1>14

\* They are appended to the queue.
LEMMA JoinSlots ==
  ASSUME NEW q \in Seq(Event), NEW p \in Seq(Event), NEW st, NEW c
  PROVE  /\ q \o p \in Seq(Event)
         /\ NoneOf(p, c) => Equal(q, st, q \o p, st, c)
         /\ OneOf(p, c) /\ ~ Some(q, st, c) => Some(q \o p, st, c) /\ Once(q \o p, st, c)
         /\ \A d \in Nat \ {0}, k \in Nat : Slot(q \o p, st, d, k, c) <=> Slot(q, st, d, k, c)
<1> DEFINE r == q \o p
           m == Len(q)
           n == Len(p)
<1>1. m \in Nat /\ n \in Nat /\ DOMAIN q = 1..m /\ DOMAIN p = 1..n OBVIOUS
<1>2. /\ r \in Seq(Event) /\ Len(r) = m + n
      /\ \A i \in 1..(m + n) : r[i] = IF i <= m THEN q[i] ELSE p[i - m]
  BY ConcatProperties
<1>3. DOMAIN r = 1..(m + n) BY <1>2
<1> HIDE DEF r, m, n
<1>4. \A i \in 1..m : i \in 1..(m + n) /\ r[i] = q[i] BY <1>1, <1>2
<1>5. \A i \in 1..n : i + m \in 1..(m + n) /\ i + m \notin 1..m /\ r[i + m] = p[i]
  <2>1. \A i \in 1..n : i + m \in 1..(m + n) /\ ~ (i + m <= m) /\ i + m - m = i BY <1>1
  <2> QED BY <1>1, <1>2, <2>1
<1>6. \A i \in 1..(m + n) : i \in 1..m \/ (i - m \in 1..n /\ i - m + m = i) BY <1>1
<1>7. \A d \in Nat \ {0}, k \in Nat : Slot(r, st, d, k, c) <=> Slot(q, st, d, k, c) BY DEF Slot
<1>8. 0 \notin 1..Len(st)
  <2>1. \A d \in 1..Len(st) : d >= 1 OBVIOUS
  <2> QED BY <2>1
<1>9. \A k \in Nat : Slot(r, st, 0, k, c) <=> k \in 1..(m + n) /\ r[k] = FlipOf(c) BY <1>3, <1>8 DEF Slot
<1>10. \A k \in Nat : Slot(q, st, 0, k, c) <=> k \in 1..m /\ q[k] = FlipOf(c) BY <1>1, <1>8 DEF Slot
<1>11. ASSUME NoneOf(p, c), NEW k \in Nat PROVE Slot(r, st, 0, k, c) <=> Slot(q, st, 0, k, c)
  <2>1. CASE k \in 1..m BY <1>4, <1>9, <1>10, <2>1
  <2>2. CASE k \notin 1..m
    <3>1. k \in 1..(m + n) => r[k] # FlipOf(c)
      <4>1. SUFFICES ASSUME k \in 1..(m + n) PROVE r[k] # FlipOf(c) OBVIOUS
      <4>2. k - m \in 1..n /\ k - m + m = k BY <1>6, <2>2, <4>1
      <4>3. r[k] = p[k - m] BY <1>5, <4>2
      <4> QED BY <1>1, <1>11, <4>2, <4>3 DEF NoneOf
    <3> QED BY <1>9, <1>10, <2>2, <3>1
  <2> QED BY <2>1, <2>2
<1>12. ASSUME NoneOf(p, c) PROVE Equal(q, st, r, st, c)
  <2>1. ASSUME NEW d \in Nat, NEW k \in Nat PROVE Slot(r, st, d, k, c) <=> Slot(q, st, d, k, c)
    <3>1. CASE d = 0 BY <1>11, <1>12, <3>1
    <3>2. CASE d # 0 BY <1>7, <3>2
    <3> QED BY <3>1, <3>2
  <2> QED BY <2>1 DEF Equal
<1>13. ASSUME OneOf(p, c), ~ Some(q, st, c) PROVE Some(r, st, c) /\ Once(r, st, c)
  <2>1. PICK k \in DOMAIN p : p[k] = FlipOf(c) /\ \A j \in DOMAIN p : p[j] = FlipOf(c) => j = k
    BY <1>13 DEF OneOf
  <2>2. k + m \in Nat /\ Slot(r, st, 0, k + m, c) BY <1>1, <1>5, <1>9, <2>1
  <2>3. ASSUME NEW d \in Nat, NEW i \in Nat, Slot(r, st, d, i, c) PROVE d = 0 /\ i = k + m
    <3>1. d = 0 BY <1>7, <1>13, <2>3 DEF Some
    <3>2. i \in 1..(m + n) /\ r[i] = FlipOf(c) BY <1>9, <2>3, <3>1
    <3>3. i \notin 1..m
      <4>1. SUFFICES ASSUME i \in 1..m PROVE FALSE OBVIOUS
      <4>2. Slot(q, st, 0, i, c) BY <1>4, <1>10, <3>2, <4>1
      <4> QED BY <1>13, <4>2 DEF Some
    <3>4. i - m \in 1..n /\ i - m + m = i BY <1>6, <3>2, <3>3
    <3>5. p[i - m] = FlipOf(c) BY <1>5, <3>2, <3>4
    <3>6. i - m = k BY <1>1, <2>1, <3>4, <3>5
    <3> QED BY <3>1, <3>4, <3>6
  <2>4. Some(r, st, c) BY <2>2 DEF Some
  <2>5. Once(r, st, c) BY <2>3 DEF Once
  <2> QED BY <2>4, <2>5
<1> QED BY <1>2, <1>7, <1>12, <1>13 DEF r

-----------------------------------------------------------------------------
(* What the operators on the display compute.                                *)

\* All that Become sets.
State ==
  [crtc : [Crtcs -> SnaCrtc], flip_active : Nat, dirty : BOOLEAN, shadow : Bo \cup {None},
   shadow_enabled : BOOLEAN, waits : BOOLEAN, shown : [Crtcs -> Bo \cup {None}],
   flying : [Crtcs -> Bo \cup {None}], queue : Seq(Event)]
\* A mode of the screen apart.
SameScreen(t, s) ==
  t.shadow = s.shadow /\ t.shadow_enabled = s.shadow_enabled /\ t.waits = s.waits

\* The fields of a display.
LEMMA StateFacts ==
  ASSUME NEW s \in State
  PROVE  /\ s = [crtc |-> s.crtc, flip_active |-> s.flip_active, dirty |-> s.dirty, shadow |-> s.shadow,
                 shadow_enabled |-> s.shadow_enabled, waits |-> s.waits, shown |-> s.shown,
                 flying |-> s.flying, queue |-> s.queue]
         /\ s.crtc \in [Crtcs -> SnaCrtc] /\ s.flip_active \in Nat /\ s.dirty \in BOOLEAN
         /\ s.shadow \in Bo \cup {None} /\ s.shadow_enabled \in BOOLEAN /\ s.waits \in BOOLEAN
         /\ s.shown \in [Crtcs -> Bo \cup {None}] /\ s.flying \in [Crtcs -> Bo \cup {None}]
         /\ s.queue \in Seq(Event)
BY DEF State

\* The fields of a CRTC.
LEMMA CrtcFacts ==
  ASSUME NEW x \in SnaCrtc
  PROVE  /\ x = [bo |-> x.bo, flip_bo |-> x.flip_bo, current |-> x.current, handler |-> x.handler]
         /\ x.bo \in Bo \cup {None} /\ x.flip_bo \in Bo \cup {None} /\ x.current \in BOOLEAN
         /\ x.handler \in {"shadow", "client", "none"}
BY DEF SnaCrtc

\* A mode ends the flips of its CRTCs.
LEMMA SetCrtcsFacts ==
  ASSUME NEW s \in State, NEW shows, DOMAIN shows \subseteq Crtcs,
         \A c \in DOMAIN shows : shows[c] \in Bo \cup {None}
  PROVE  LET t == SetCrtcs(s, shows) IN
         /\ t \in State /\ SameScreen(t, s)
         /\ t.crtc = s.crtc /\ t.flip_active = s.flip_active /\ t.dirty = s.dirty
         /\ t.queue = s.queue \o Ended(s, DOMAIN shows)
         /\ \A c \in Crtcs : t.shown[c] = (IF c \in DOMAIN shows THEN shows[c] ELSE s.shown[c])
                             /\ t.flying[c] = IF c \in DOMAIN shows THEN None ELSE s.flying[c]
<1> DEFINE t == SetCrtcs(s, shows)
           sh == [c \in Crtcs |-> IF c \in DOMAIN shows THEN shows[c] ELSE s.shown[c]]
           fl == [c \in Crtcs |-> IF c \in DOMAIN shows THEN None ELSE s.flying[c]]
           e == Ended(s, DOMAIN shows)
           qe == s.queue \o e
<1>1. sh \in [Crtcs -> Bo \cup {None}] /\ fl \in [Crtcs -> Bo \cup {None}] BY StateFacts
<1>2. e \in Seq(Event) BY EndedFacts
<1>3. qe \in Seq(Event) BY <1>2, StateFacts
<1>4. \A c \in Crtcs : sh[c] = (IF c \in DOMAIN shows THEN shows[c] ELSE s.shown[c])
                       /\ fl[c] = IF c \in DOMAIN shows THEN None ELSE s.flying[c]
  OBVIOUS
<1>5. t = [s EXCEPT !.shown = sh, !.flying = fl, !.queue = qe] BY DEF SetCrtcs
<1>6. s = [crtc |-> s.crtc, flip_active |-> s.flip_active, dirty |-> s.dirty, shadow |-> s.shadow,
           shadow_enabled |-> s.shadow_enabled, waits |-> s.waits, shown |-> s.shown,
           flying |-> s.flying, queue |-> s.queue]
  BY StateFacts
<1> HIDE DEF t, sh, fl, qe, e
<1>7. t = [crtc |-> s.crtc, flip_active |-> s.flip_active, dirty |-> s.dirty, shadow |-> s.shadow,
           shadow_enabled |-> s.shadow_enabled, waits |-> s.waits, shown |-> sh,
           flying |-> fl, queue |-> qe]
  BY <1>5, <1>6
<1>8. /\ t.crtc = s.crtc /\ t.flip_active = s.flip_active /\ t.dirty = s.dirty /\ t.shadow = s.shadow
      /\ t.shadow_enabled = s.shadow_enabled /\ t.waits = s.waits /\ t.shown = sh /\ t.flying = fl
      /\ t.queue = qe
  BY <1>7
<1>9. t \in State BY <1>1, <1>3, <1>7, StateFacts DEF State
<1> QED BY <1>4, <1>8, <1>9 DEF SameScreen, t, qe, e

\* Where the events of c are then.
LEMMA ModeSlots ==
  ASSUME NEW s \in State, NEW cs, NEW st, NEW c \in Crtcs,
         Once(s.queue, st, c), s.flying[c] # None => ~ Some(s.queue, st, c)
  PROVE  LET q == s.queue \o Ended(s, cs) IN
         /\ Once(q, st, c)
         /\ Some(q, st, c) <=> Some(s.queue, st, c) \/ (c \in cs /\ s.flying[c] # None)
<1> DEFINE p == Ended(s, cs)
           q == s.queue
           r == q \o p
<1>1. /\ p \in Seq(Event)
      /\ IF c \in cs /\ s.flying[c] # None THEN OneOf(p, c) ELSE NoneOf(p, c)
  BY EndedFacts
<1>2. q \in Seq(Event) BY StateFacts
<1>3. Once(q, st, c) /\ (s.flying[c] # None => ~ Some(q, st, c)) OBVIOUS
<1> HIDE DEF p, q
<1>4. /\ NoneOf(p, c) => Equal(q, st, r, st, c)
      /\ OneOf(p, c) /\ ~ Some(q, st, c) => Some(r, st, c) /\ Once(r, st, c)
  BY <1>1, <1>2, JoinSlots
<1> HIDE DEF r
<1>5. NoneOf(p, c) => (Some(r, st, c) <=> Some(q, st, c)) /\ (Once(q, st, c) => Once(r, st, c))
  BY <1>4, EqualLike DEF Like
<1>6. /\ Once(r, st, c)
      /\ Some(r, st, c) <=> Some(q, st, c) \/ (c \in cs /\ s.flying[c] # None)
  BY <1>1, <1>3, <1>4, <1>5
<1> QED BY <1>6 DEF r, p, q

\* The screen, or nothing, is attached to CRTCs.
AttachedAs(t, s, shows) ==
  /\ t \in State /\ SameScreen(t, s)
  /\ t.flip_active = s.flip_active
  /\ t.queue = s.queue \o Ended(s, DOMAIN shows)
  /\ \A c \in Crtcs :
       /\ t.crtc[c].flip_bo = s.crtc[c].flip_bo /\ t.crtc[c].handler = s.crtc[c].handler
       /\ t.shown[c] = (IF c \in DOMAIN shows THEN shows[c] ELSE s.shown[c])
       /\ t.flying[c] = (IF c \in DOMAIN shows THEN None ELSE s.flying[c])
       /\ t.crtc[c].bo = (IF c \in DOMAIN shows THEN shows[c] ELSE s.crtc[c].bo)
       /\ t.crtc[c].current = IF c \in DOMAIN shows THEN FALSE ELSE s.crtc[c].current
\* CRTCs have a mode set instead of being flipped.
ReplacedAs(t, s, cs, bo) ==
  /\ t \in State /\ SameScreen(t, s)
  /\ t.flip_active = s.flip_active
  /\ t.queue = s.queue \o Ended(s, cs)
  /\ \A c \in Crtcs :
       /\ t.crtc[c].flip_bo = s.crtc[c].flip_bo /\ t.crtc[c].handler = s.crtc[c].handler
       /\ t.shown[c] = (IF c \in cs THEN bo ELSE s.shown[c])
       /\ t.flying[c] = (IF c \in cs THEN None ELSE s.flying[c])
       /\ t.crtc[c].bo = (IF c \in cs THEN bo ELSE s.crtc[c].bo)
       /\ t.crtc[c].current = s.crtc[c].current
\* CRTCs are flipped.
FlippedAs(t, s, cs, bo, handler) ==
  /\ t \in State /\ SameScreen(t, s)
  /\ t.flip_active = s.flip_active + Cardinality(cs)
  /\ t.queue = s.queue /\ t.shown = s.shown
  /\ \A c \in Crtcs :
       /\ c \in cs => t.crtc[c].flip_bo = bo /\ t.crtc[c].current /\ t.crtc[c].handler = handler
                      /\ t.crtc[c].bo = s.crtc[c].bo /\ t.flying[c] = bo
       /\ c \notin cs => t.crtc[c] = s.crtc[c] /\ t.flying[c] = s.flying[c]

\* What is attached.
LEMMA AttachedFacts ==
  ASSUME NEW s \in State, NEW shows, DOMAIN shows \subseteq Crtcs,
         \A c \in DOMAIN shows : shows[c] \in Bo \cup {None}
  PROVE  AttachedAs(Attached(s, shows), s, shows)
<1> DEFINE t == Attached(s, shows)
           cr == [c \in Crtcs |-> IF c \in DOMAIN shows
                                  THEN [s.crtc[c] EXCEPT !.bo = shows[c], !.current = FALSE]
                                  ELSE s.crtc[c]]
           yes == TRUE
           u == [s EXCEPT !.crtc = cr, !.dirty = yes]
<1>1. t = SetCrtcs(u, shows) BY DEF Attached
<1>2. s.crtc \in [Crtcs -> SnaCrtc] BY StateFacts
<1>3. ASSUME NEW c \in Crtcs
      PROVE  /\ cr[c] \in SnaCrtc
             /\ cr[c].flip_bo = s.crtc[c].flip_bo /\ cr[c].handler = s.crtc[c].handler
             /\ cr[c].bo = (IF c \in DOMAIN shows THEN shows[c] ELSE s.crtc[c].bo)
             /\ cr[c].current = IF c \in DOMAIN shows THEN FALSE ELSE s.crtc[c].current
  <2> DEFINE x == s.crtc[c]
  <2>1. x \in SnaCrtc BY <1>2
  <2>2. cr[c] = IF c \in DOMAIN shows THEN [x EXCEPT !.bo = shows[c], !.current = FALSE] ELSE x
    OBVIOUS
  <2> HIDE DEF cr, x
  <2>3. CASE c \in DOMAIN shows
    <3>1. x = [bo |-> x.bo, flip_bo |-> x.flip_bo, current |-> x.current, handler |-> x.handler]
      BY <2>1, CrtcFacts
    <3> DEFINE b == shows[c]
    <3>2. b \in Bo \cup {None} BY <2>3
    <3>3. cr[c] = [x EXCEPT !.bo = b, !.current = FALSE] BY <2>2, <2>3
    <3> HIDE DEF b
    <3>4. cr[c] = [bo |-> b, flip_bo |-> x.flip_bo, current |-> FALSE, handler |-> x.handler]
      BY <3>1, <3>3
    <3>5. cr[c] \in SnaCrtc BY <2>1, <3>2, <3>4, CrtcFacts DEF SnaCrtc
    <3>6. cr[c].bo = b /\ cr[c].flip_bo = x.flip_bo /\ cr[c].current = FALSE /\ cr[c].handler = x.handler
      BY <3>4
    <3> QED BY <2>3, <3>5, <3>6 DEF b, x
  <2>4. CASE c \notin DOMAIN shows BY <2>1, <2>2, <2>4 DEF x
  <2> QED BY <2>3, <2>4
<1>4. cr \in [Crtcs -> SnaCrtc] BY <1>3
<1>5. s = [crtc |-> s.crtc, flip_active |-> s.flip_active, dirty |-> s.dirty, shadow |-> s.shadow,
           shadow_enabled |-> s.shadow_enabled, waits |-> s.waits, shown |-> s.shown,
           flying |-> s.flying, queue |-> s.queue]
  BY StateFacts
<1>a. yes \in BOOLEAN OBVIOUS
<1>b. u = [s EXCEPT !.crtc = cr, !.dirty = yes] OBVIOUS
<1> HIDE DEF cr, yes, u, t
<1>6. u = [crtc |-> cr, flip_active |-> s.flip_active, dirty |-> yes, shadow |-> s.shadow,
           shadow_enabled |-> s.shadow_enabled, waits |-> s.waits, shown |-> s.shown,
           flying |-> s.flying, queue |-> s.queue]
  BY <1>5, <1>b
<1>7. u \in State BY <1>4, <1>6, <1>a, StateFacts DEF State
<1>8. /\ u.crtc = cr /\ u.flip_active = s.flip_active /\ SameScreen(u, s) /\ u.shown = s.shown
      /\ u.flying = s.flying /\ u.queue = s.queue
  BY <1>6 DEF SameScreen
<1>9. Ended(u, DOMAIN shows) = Ended(s, DOMAIN shows) BY <1>8 DEF Ended
<1>10. /\ t \in State /\ SameScreen(t, u)
       /\ t.crtc = u.crtc /\ t.flip_active = u.flip_active
       /\ t.queue = u.queue \o Ended(u, DOMAIN shows)
       /\ \A c \in Crtcs : t.shown[c] = (IF c \in DOMAIN shows THEN shows[c] ELSE u.shown[c])
                           /\ t.flying[c] = IF c \in DOMAIN shows THEN None ELSE u.flying[c]
  <2> DEFINE v == SetCrtcs(u, shows)
  <2>1. /\ v \in State /\ SameScreen(v, u)
        /\ v.crtc = u.crtc /\ v.flip_active = u.flip_active
        /\ v.queue = u.queue \o Ended(u, DOMAIN shows)
        /\ \A c \in Crtcs : v.shown[c] = (IF c \in DOMAIN shows THEN shows[c] ELSE u.shown[c])
                            /\ v.flying[c] = IF c \in DOMAIN shows THEN None ELSE u.flying[c]
    BY <1>7, SetCrtcsFacts, ZenonT(60)
  <2>2. t = v BY <1>1
  <2> HIDE DEF v
  <2> QED BY <2>1, <2>2
<1>11. SameScreen(t, s) BY <1>8, <1>10 DEF SameScreen
<1>12. t.queue = s.queue \o Ended(s, DOMAIN shows) BY <1>8, <1>9, <1>10
<1>13. ASSUME NEW c \in Crtcs
       PROVE /\ t.crtc[c].flip_bo = s.crtc[c].flip_bo /\ t.crtc[c].handler = s.crtc[c].handler
             /\ t.shown[c] = (IF c \in DOMAIN shows THEN shows[c] ELSE s.shown[c])
             /\ t.flying[c] = (IF c \in DOMAIN shows THEN None ELSE s.flying[c])
             /\ t.crtc[c].bo = (IF c \in DOMAIN shows THEN shows[c] ELSE s.crtc[c].bo)
             /\ t.crtc[c].current = IF c \in DOMAIN shows THEN FALSE ELSE s.crtc[c].current
  BY <1>3, <1>8, <1>10, ZenonT(60)
<1>14. t \in State /\ t.flip_active = s.flip_active BY <1>8, <1>10
<1>15. AttachedAs(t, s, shows) BY <1>11, <1>12, <1>13, <1>14 DEF AttachedAs
<1> QED BY <1>15 DEF t

\* What is set instead.
LEMMA ReplacedFacts ==
  ASSUME NEW s \in State, NEW cs \in SUBSET Crtcs, NEW bo \in Bo
  PROVE  ReplacedAs(Replaced(s, cs, bo), s, cs, bo)
<1> DEFINE t == Replaced(s, cs, bo)
           cr == [c \in Crtcs |-> IF c \in cs THEN [s.crtc[c] EXCEPT !.bo = bo] ELSE s.crtc[c]]
           u == [s EXCEPT !.crtc = cr]
           shows == [c \in cs |-> bo]
<1>1. t = SetCrtcs(u, shows) BY DEF Replaced
<1>2. s.crtc \in [Crtcs -> SnaCrtc] BY StateFacts
<1>a. DOMAIN shows = cs /\ \A c \in cs : shows[c] = bo OBVIOUS
<1> HIDE DEF shows
<1>b. DOMAIN shows \subseteq Crtcs /\ \A c \in DOMAIN shows : shows[c] \in Bo \cup {None} BY <1>a
<1>3. ASSUME NEW c \in Crtcs
      PROVE  /\ cr[c] \in SnaCrtc
             /\ cr[c].flip_bo = s.crtc[c].flip_bo /\ cr[c].handler = s.crtc[c].handler
             /\ cr[c].bo = (IF c \in cs THEN bo ELSE s.crtc[c].bo)
             /\ cr[c].current = s.crtc[c].current
  <2> DEFINE x == s.crtc[c]
  <2>1. x \in SnaCrtc BY <1>2
  <2>2. cr[c] = IF c \in cs THEN [x EXCEPT !.bo = bo] ELSE x
    OBVIOUS
  <2> HIDE DEF cr, x
  <2>3. CASE c \in cs
    <3>1. x = [bo |-> x.bo, flip_bo |-> x.flip_bo, current |-> x.current, handler |-> x.handler]
      BY <2>1, CrtcFacts
    <3>3. cr[c] = [x EXCEPT !.bo = bo] BY <2>2, <2>3
    <3>4. cr[c] = [bo |-> bo, flip_bo |-> x.flip_bo, current |-> x.current, handler |-> x.handler]
      BY <3>1, <3>3
    <3>5. cr[c] \in SnaCrtc BY <2>1, <3>4, CrtcFacts DEF SnaCrtc
    <3>6. cr[c].bo = bo /\ cr[c].flip_bo = x.flip_bo /\ cr[c].current = x.current /\ cr[c].handler = x.handler
      BY <3>4
    <3> QED BY <2>3, <3>5, <3>6 DEF x
  <2>4. CASE c \notin cs BY <2>1, <2>2, <2>4 DEF x
  <2> QED BY <2>3, <2>4
<1>4. cr \in [Crtcs -> SnaCrtc] BY <1>3
<1>5. s = [crtc |-> s.crtc, flip_active |-> s.flip_active, dirty |-> s.dirty, shadow |-> s.shadow,
           shadow_enabled |-> s.shadow_enabled, waits |-> s.waits, shown |-> s.shown,
           flying |-> s.flying, queue |-> s.queue]
  BY StateFacts
<1> HIDE DEF cr
<1>6. u = [crtc |-> cr, flip_active |-> s.flip_active, dirty |-> s.dirty, shadow |-> s.shadow,
           shadow_enabled |-> s.shadow_enabled, waits |-> s.waits, shown |-> s.shown,
           flying |-> s.flying, queue |-> s.queue]
  BY <1>5
<1> HIDE DEF u, t
<1>7. u \in State BY <1>4, <1>6, StateFacts DEF State
<1>8. /\ u.crtc = cr /\ u.flip_active = s.flip_active /\ SameScreen(u, s) /\ u.shown = s.shown
      /\ u.flying = s.flying /\ u.queue = s.queue
  BY <1>6 DEF SameScreen
<1>9. Ended(u, cs) = Ended(s, cs) BY <1>8 DEF Ended
<1>10. /\ t \in State /\ SameScreen(t, u)
       /\ t.crtc = u.crtc /\ t.flip_active = u.flip_active
       /\ t.queue = u.queue \o Ended(u, cs)
       /\ \A c \in Crtcs : t.shown[c] = (IF c \in cs THEN shows[c] ELSE u.shown[c])
                           /\ t.flying[c] = IF c \in cs THEN None ELSE u.flying[c]
  <2> DEFINE v == SetCrtcs(u, shows)
  <2>1. /\ v \in State /\ SameScreen(v, u)
        /\ v.crtc = u.crtc /\ v.flip_active = u.flip_active
        /\ v.queue = u.queue \o Ended(u, DOMAIN shows)
        /\ \A c \in Crtcs : v.shown[c] = (IF c \in DOMAIN shows THEN shows[c] ELSE u.shown[c])
                            /\ v.flying[c] = IF c \in DOMAIN shows THEN None ELSE u.flying[c]
    BY <1>7, <1>b, SetCrtcsFacts, ZenonT(60)
  <2>2. t = v BY <1>1
  <2> HIDE DEF v
  <2> QED BY <2>1, <2>2, <1>a
<1>11. SameScreen(t, s) BY <1>8, <1>10 DEF SameScreen
<1>12. t.queue = s.queue \o Ended(s, cs) BY <1>8, <1>9, <1>10
<1>13. ASSUME NEW c \in Crtcs
       PROVE  /\ t.crtc[c].flip_bo = s.crtc[c].flip_bo /\ t.crtc[c].handler = s.crtc[c].handler
              /\ t.shown[c] = (IF c \in cs THEN bo ELSE s.shown[c])
              /\ t.flying[c] = (IF c \in cs THEN None ELSE s.flying[c])
              /\ t.crtc[c].bo = (IF c \in cs THEN bo ELSE s.crtc[c].bo)
              /\ t.crtc[c].current = s.crtc[c].current
  BY <1>3, <1>8, <1>10, <1>a
<1>14. t \in State /\ t.flip_active = s.flip_active BY <1>8, <1>10
<1>15. ReplacedAs(t, s, cs, bo) BY <1>11, <1>12, <1>13, <1>14 DEF ReplacedAs
<1> QED BY <1>15 DEF t

\* What is flipped.
LEMMA FlippedFacts ==
  ASSUME NEW s \in State, NEW cs \in SUBSET Crtcs, NEW bo \in Bo, NEW handler \in {"shadow", "client", "none"}
  PROVE  FlippedAs(Flipped(s, cs, bo, handler), s, cs, bo, handler)
<1> DEFINE t == Flipped(s, cs, bo, handler)
           cr == [c \in Crtcs |->
              IF c \in cs THEN [s.crtc[c] EXCEPT !.flip_bo = bo, !.current = TRUE, !.handler = handler]
              ELSE s.crtc[c]]
           fl == [c \in Crtcs |-> IF c \in cs THEN bo ELSE s.flying[c]]
           n == s.flip_active + Cardinality(cs)
<1>1. t = [s EXCEPT !.crtc = cr, !.flip_active = n, !.flying = fl] BY DEF Flipped
<1>2. s.crtc \in [Crtcs -> SnaCrtc] BY StateFacts
<1>3. ASSUME NEW c \in Crtcs
      PROVE  /\ cr[c] \in SnaCrtc
             /\ c \in cs => cr[c].flip_bo = bo /\ cr[c].current /\ cr[c].handler = handler /\ cr[c].bo = s.crtc[c].bo
             /\ c \notin cs => cr[c] = s.crtc[c]
  <2> DEFINE x == s.crtc[c]
  <2>1. x \in SnaCrtc BY <1>2
  <2>2. cr[c] = IF c \in cs THEN [x EXCEPT !.flip_bo = bo, !.current = TRUE, !.handler = handler] ELSE x
    OBVIOUS
  <2> HIDE DEF cr, x
  <2>3. CASE c \in cs
    <3>1. x = [bo |-> x.bo, flip_bo |-> x.flip_bo, current |-> x.current, handler |-> x.handler]
      BY <2>1, CrtcFacts
    <3>3. cr[c] = [x EXCEPT !.flip_bo = bo, !.current = TRUE, !.handler = handler] BY <2>2, <2>3
    <3>4. cr[c] = [bo |-> x.bo, flip_bo |-> bo, current |-> TRUE, handler |-> handler]
      BY <3>1, <3>3
    <3>5. cr[c] \in SnaCrtc BY <2>1, <3>4, CrtcFacts DEF SnaCrtc
    <3>6. cr[c].bo = x.bo /\ cr[c].flip_bo = bo /\ cr[c].current = TRUE /\ cr[c].handler = handler
      BY <3>4
    <3> QED BY <2>3, <3>5, <3>6 DEF x
  <2>4. CASE c \notin cs BY <2>1, <2>2, <2>4 DEF x
  <2> QED BY <2>3, <2>4
<1>4. cr \in [Crtcs -> SnaCrtc] BY <1>3
<1>a. fl \in [Crtcs -> Bo \cup {None}] /\ \A c \in Crtcs : fl[c] = IF c \in cs THEN bo ELSE s.flying[c]
  BY StateFacts
<1>b. n \in Nat
  <2>1. IsFiniteSet(Crtcs) BY CrtcsAssumption, FS_Interval DEF Crtcs
  <2>2. IsFiniteSet(cs) BY <2>1, FS_Subset
  <2>3. Cardinality(cs) \in Nat BY <2>2, FS_CardinalityType
  <2>4. s.flip_active \in Nat BY StateFacts
  <2> QED BY <2>3, <2>4
<1>5. s = [crtc |-> s.crtc, flip_active |-> s.flip_active, dirty |-> s.dirty, shadow |-> s.shadow,
           shadow_enabled |-> s.shadow_enabled, waits |-> s.waits, shown |-> s.shown,
           flying |-> s.flying, queue |-> s.queue]
  BY StateFacts
<1>c. n = s.flip_active + Cardinality(cs) OBVIOUS
<1> HIDE DEF cr, fl, n, t
<1>6. t = [crtc |-> cr, flip_active |-> n, dirty |-> s.dirty, shadow |-> s.shadow,
           shadow_enabled |-> s.shadow_enabled, waits |-> s.waits, shown |-> s.shown,
           flying |-> fl, queue |-> s.queue]
  BY <1>1, <1>5
<1>7. t \in State BY <1>4, <1>6, <1>a, <1>b, StateFacts DEF State
<1>8. /\ t.crtc = cr /\ t.flip_active = n /\ SameScreen(t, s) /\ t.shown = s.shown
      /\ t.flying = fl /\ t.queue = s.queue
  BY <1>6 DEF SameScreen
<1>9. ASSUME NEW c \in Crtcs
      PROVE   /\ c \in cs => t.crtc[c].flip_bo = bo /\ t.crtc[c].current /\ t.crtc[c].handler = handler
                             /\ t.crtc[c].bo = s.crtc[c].bo /\ t.flying[c] = bo
              /\ c \notin cs => t.crtc[c] = s.crtc[c] /\ t.flying[c] = s.flying[c]
  BY <1>3, <1>8, <1>a
<1>10. FlippedAs(t, s, cs, bo, handler) BY <1>7, <1>8, <1>9, <1>c DEF FlippedAs
<1> QED BY <1>10 DEF t

-----------------------------------------------------------------------------
(* What is true of the display, with the functions that are active.          *)

\* The CRTCs that are flipping; flip_active is their number.
Flipping(s) == {c \in Crtcs : s.crtc[c].flip_bo # None}
Counted(s) == s.flip_active = Cardinality(Flipping(s))
\* A CRTC that is not flipping shows its bo, and no event of it is to come; the flip of one
\* that is has still to be made, or its event is in one place.
Resting(s, st, c) ==
  s.flying[c] = None /\ ~ Some(s.queue, st, c) /\ s.shown[c] = s.crtc[c].bo
Waiting(s, st, c) ==
  /\ s.flying[c] = s.crtc[c].flip_bo /\ s.crtc[c].current
  /\ ~ Some(s.queue, st, c) /\ s.shown[c] = s.crtc[c].bo
Made(s, st, c) ==
  /\ s.flying[c] = None /\ Some(s.queue, st, c)
  /\ s.shown[c] = IF s.crtc[c].current THEN s.crtc[c].flip_bo ELSE s.crtc[c].bo
Sound(s, st, c) ==
  /\ Once(s.queue, st, c)
  /\ IF s.crtc[c].flip_bo = None THEN Resting(s, st, c) ELSE Waiting(s, st, c) \/ Made(s, st, c)
Good(s, st) == Counted(s) /\ \A c \in Crtcs : Sound(s, st, c)

\* The CRTCs are finitely many.
LEMMA CrtcsFinite ==
  /\ IsFiniteSet(Crtcs) /\ Cardinality(Crtcs) = num_real_crtc
  /\ \A cs \in SUBSET Crtcs : IsFiniteSet(cs) /\ Cardinality(cs) \in 0..num_real_crtc
<1>1. IsFiniteSet(Crtcs) /\ Cardinality(Crtcs) = num_real_crtc
  BY CrtcsAssumption, FS_Interval DEF Crtcs
<1>2. ASSUME NEW cs \in SUBSET Crtcs PROVE IsFiniteSet(cs) /\ Cardinality(cs) \in 0..num_real_crtc
  <2>1. IsFiniteSet(cs) /\ Cardinality(cs) <= num_real_crtc BY <1>1, FS_Subset
  <2>2. Cardinality(cs) \in Nat BY <2>1, FS_CardinalityType
  <2> QED BY <2>1, <2>2, CrtcsAssumption
<1> QED BY <1>1, <1>2

\* No flip is counted when none is outstanding.
LEMMA NoneFlipping ==
  ASSUME NEW s, Counted(s) PROVE s.flip_active = 0 <=> \A c \in Crtcs : s.crtc[c].flip_bo = None
<1>1. Flipping(s) \in SUBSET Crtcs BY DEF Flipping
<1>2. IsFiniteSet(Flipping(s)) BY <1>1, CrtcsFinite
<1>3. s.flip_active = 0 <=> Flipping(s) = {} BY <1>2, FS_EmptySet DEF Counted
<1> QED BY <1>3 DEF Flipping

\* What is true stays true when the screen alone, or nothing that counts, changes.
LEMMA GoodSame ==
  ASSUME NEW s, NEW t, NEW st, NEW su, Good(s, st),
         t.crtc = s.crtc, t.flip_active = s.flip_active, t.shown = s.shown, t.flying = s.flying,
         \A c \in Crtcs : Like(s.queue, st, t.queue, su, c)
  PROVE  Good(t, su)
<1>1. Counted(t) BY DEF Good, Counted, Flipping
<1>2. ASSUME NEW c \in Crtcs PROVE Sound(t, su, c)
  <2>1. Sound(s, st, c) /\ Like(s.queue, st, t.queue, su, c) BY DEF Good
  <2> QED BY <2>1 DEF Sound, Like, Resting, Waiting, Made
<1> QED BY <1>1, <1>2 DEF Good

\* A mode is set.
LEMMA GoodAttached ==
  ASSUME NEW s \in State, NEW st, Good(s, st), NEW shows, DOMAIN shows \subseteq Crtcs,
         \A c \in DOMAIN shows : shows[c] \in Bo \cup {None}
  PROVE  Good(Attached(s, shows), st)
<1> DEFINE t == Attached(s, shows)
<1>a. AttachedAs(t, s, shows) BY AttachedFacts
<1> HIDE DEF t
<1>1. /\ t.flip_active = s.flip_active
      /\ t.queue = s.queue \o Ended(s, DOMAIN shows)
      /\ \A c \in Crtcs :
           /\ t.crtc[c].flip_bo = s.crtc[c].flip_bo
           /\ t.shown[c] = (IF c \in DOMAIN shows THEN shows[c] ELSE s.shown[c])
           /\ t.flying[c] = (IF c \in DOMAIN shows THEN None ELSE s.flying[c])
           /\ t.crtc[c].bo = (IF c \in DOMAIN shows THEN shows[c] ELSE s.crtc[c].bo)
           /\ t.crtc[c].current = IF c \in DOMAIN shows THEN FALSE ELSE s.crtc[c].current
  BY <1>a DEF AttachedAs
<1>2. Flipping(t) = Flipping(s) BY <1>1 DEF Flipping
<1>3. Counted(t) BY <1>1, <1>2 DEF Good, Counted
<1>4. ASSUME NEW c \in Crtcs PROVE Sound(t, st, c)
  <2>1. Sound(s, st, c) BY DEF Good
  <2>2. Once(s.queue, st, c) /\ (s.flying[c] # None => ~ Some(s.queue, st, c))
    BY <2>1 DEF Sound, Resting, Waiting, Made
  <2>3. /\ Once(t.queue, st, c)
        /\ Some(t.queue, st, c) <=> Some(s.queue, st, c) \/ (c \in DOMAIN shows /\ s.flying[c] # None)
    BY <1>1, <2>2, ModeSlots, ZenonT(60)
  <2>4. CASE c \notin DOMAIN shows
    <3>1. /\ t.crtc[c].flip_bo = s.crtc[c].flip_bo /\ t.shown[c] = s.shown[c]
          /\ t.flying[c] = s.flying[c] /\ t.crtc[c].bo = s.crtc[c].bo
          /\ t.crtc[c].current = s.crtc[c].current
          /\ Some(t.queue, st, c) <=> Some(s.queue, st, c)
      BY <1>1, <2>3, <2>4
    <3> QED BY <2>1, <2>3, <3>1 DEF Sound, Resting, Waiting, Made
  <2>5. CASE c \in DOMAIN shows
    <3>1. /\ t.crtc[c].flip_bo = s.crtc[c].flip_bo /\ t.shown[c] = shows[c]
          /\ t.flying[c] = None /\ t.crtc[c].bo = shows[c] /\ t.crtc[c].current = FALSE
          /\ Some(t.queue, st, c) <=> Some(s.queue, st, c) \/ s.flying[c] # None
      BY <1>1, <2>3, <2>5
    <3>2. CASE s.crtc[c].flip_bo = None
      <4>1. ~ Some(t.queue, st, c) BY <2>1, <3>1, <3>2 DEF Sound, Resting
      <4> QED BY <2>3, <3>1, <3>2, <4>1 DEF Sound, Resting
    <3>3. CASE s.crtc[c].flip_bo # None
      <4>1. Some(t.queue, st, c) BY <2>1, <3>1, <3>3 DEF Sound, Waiting, Made
      <4> QED BY <2>3, <3>1, <3>3, <4>1 DEF Sound, Made
    <3> QED BY <3>2, <3>3
  <2> QED BY <2>4, <2>5
<1> QED BY <1>3, <1>4 DEF Good, t

\* A mode is set instead of a flip.
LEMMA GoodReplaced ==
  ASSUME NEW s \in State, NEW st, Good(s, st), NEW cs \in SUBSET Crtcs, NEW bo \in Bo,
         \A c \in cs : s.crtc[c].flip_bo = None
  PROVE  Good(Replaced(s, cs, bo), st)
<1> DEFINE t == Replaced(s, cs, bo)
<1>a. ReplacedAs(t, s, cs, bo) BY ReplacedFacts
<1> HIDE DEF t
<1>1. /\ t.flip_active = s.flip_active
      /\ t.queue = s.queue \o Ended(s, cs)
      /\ \A c \in Crtcs :
           /\ t.crtc[c].flip_bo = s.crtc[c].flip_bo
           /\ t.shown[c] = (IF c \in cs THEN bo ELSE s.shown[c])
           /\ t.flying[c] = (IF c \in cs THEN None ELSE s.flying[c])
           /\ t.crtc[c].bo = (IF c \in cs THEN bo ELSE s.crtc[c].bo)
           /\ t.crtc[c].current = s.crtc[c].current
  BY <1>a DEF ReplacedAs
<1>2. Flipping(t) = Flipping(s) BY <1>1 DEF Flipping
<1>3. Counted(t) BY <1>1, <1>2 DEF Good, Counted
<1>4. ASSUME NEW c \in Crtcs PROVE Sound(t, st, c)
  <2>1. Sound(s, st, c) BY DEF Good
  <2>2. Once(s.queue, st, c) /\ (s.flying[c] # None => ~ Some(s.queue, st, c))
    BY <2>1 DEF Sound, Resting, Waiting, Made
  <2>3. /\ Once(t.queue, st, c)
        /\ Some(t.queue, st, c) <=> Some(s.queue, st, c) \/ (c \in cs /\ s.flying[c] # None)
    BY <1>1, <2>2, ModeSlots, ZenonT(60)
  <2>4. CASE c \notin cs
    <3>1. /\ t.crtc[c].flip_bo = s.crtc[c].flip_bo /\ t.shown[c] = s.shown[c]
          /\ t.flying[c] = s.flying[c] /\ t.crtc[c].bo = s.crtc[c].bo
          /\ t.crtc[c].current = s.crtc[c].current
          /\ Some(t.queue, st, c) <=> Some(s.queue, st, c)
      BY <1>1, <2>3, <2>4
    <3> QED BY <2>1, <2>3, <3>1 DEF Sound, Resting, Waiting, Made
  <2>5. CASE c \in cs
    <3>1. s.crtc[c].flip_bo = None /\ Resting(s, st, c) BY <2>1, <2>5 DEF Sound
    <3>2. /\ t.crtc[c].flip_bo = None /\ t.shown[c] = bo
          /\ t.flying[c] = None /\ t.crtc[c].bo = bo /\ ~ Some(t.queue, st, c)
      BY <1>1, <2>3, <2>5, <3>1 DEF Resting
    <3> QED BY <2>3, <3>2 DEF Sound, Resting
  <2> QED BY <2>4, <2>5
<1> QED BY <1>3, <1>4 DEF Good, t

\* CRTCs are flipped that were not flipping.
LEMMA GoodFlipped ==
  ASSUME NEW s \in State, NEW st, Good(s, st), NEW cs \in SUBSET Crtcs, NEW bo \in Bo,
         NEW handler \in {"shadow", "client", "none"}, \A c \in cs : s.crtc[c].flip_bo = None
  PROVE  Good(Flipped(s, cs, bo, handler), st)
<1> DEFINE t == Flipped(s, cs, bo, handler)
<1>a. FlippedAs(t, s, cs, bo, handler) BY FlippedFacts
<1> HIDE DEF t
<1>1. /\ t.flip_active = s.flip_active + Cardinality(cs)
      /\ t.queue = s.queue /\ t.shown = s.shown
      /\ \A c \in Crtcs :
           /\ c \in cs => t.crtc[c].flip_bo = bo /\ t.crtc[c].current /\ t.crtc[c].bo = s.crtc[c].bo
                          /\ t.flying[c] = bo
           /\ c \notin cs => t.crtc[c] = s.crtc[c] /\ t.flying[c] = s.flying[c]
  BY <1>a DEF FlippedAs
<1>2. bo # None BY CrtcsAssumption
<1>3. Counted(t)
  <2> DEFINE A == Flipping(s)
             B == Flipping(t)
  <2>1. A \cap cs = {} /\ B = A \cup cs BY <1>1, <1>2 DEF Flipping
  <2>2. IsFiniteSet(A) /\ IsFiniteSet(cs)
    <3>1. A \in SUBSET Crtcs BY DEF Flipping
    <3> QED BY <3>1, CrtcsFinite
  <2>3. s.flip_active = Cardinality(A) BY DEF Good, Counted
  <2>4. Cardinality(A) \in Nat /\ Cardinality(cs) \in Nat BY <2>2, FS_CardinalityType
  <2> HIDE DEF A, B
  <2>5. Cardinality(A \cup cs) = Cardinality(A) + Cardinality(cs) - Cardinality(A \cap cs)
    BY <2>2, FS_Union
  <2>6. Cardinality(A \cap cs) = 0 BY <2>1, FS_EmptySet
  <2>7. Cardinality(B) = Cardinality(A) + Cardinality(cs) BY <2>1, <2>4, <2>5, <2>6
  <2> QED BY <1>1, <2>3, <2>7 DEF B, Counted
<1>4. ASSUME NEW c \in Crtcs PROVE Sound(t, st, c)
  <2>1. Sound(s, st, c) BY DEF Good
  <2>2. CASE c \notin cs BY <1>1, <2>1, <2>2 DEF Sound, Resting, Waiting, Made
  <2>3. CASE c \in cs
    <3>1. s.crtc[c].flip_bo = None /\ Resting(s, st, c) BY <2>1, <2>3 DEF Sound
    <3>2. Waiting(t, st, c) BY <1>1, <2>3, <3>1 DEF Resting, Waiting
    <3> QED BY <1>1, <1>2, <2>1, <2>3, <3>2 DEF Sound
  <2> QED BY <2>2, <2>3
<1> QED BY <1>3, <1>4 DEF Good, t

-----------------------------------------------------------------------------
(* The screen is attached and detached; flips are replaced by modes.         *)

\* Nothing changes but the screen.
SameDisplay(t, s) ==
  t.crtc = s.crtc /\ t.flip_active = s.flip_active /\ t.shown = s.shown /\ t.flying = s.flying
  /\ t.queue = s.queue
\* The flips that are counted are those of before.
SameFlips(t, s) ==
  /\ t.flip_active = s.flip_active
  /\ \A c \in Crtcs : t.crtc[c].flip_bo = s.crtc[c].flip_bo /\ t.crtc[c].handler = s.crtc[c].handler
\* TearFree has ended.
Detached(t) == t.shadow = None /\ t.shadow_enabled = FALSE /\ t.waits = FALSE
\* The screen is attached.
AttachedScreen(t, s) ==
  /\ t.shadow = s.shadow /\ (t.waits <=> TearFree \/ s.waits)
  /\ t.shadow_enabled <=> s.shadow_enabled \/ (TearFree /\ s.shadow = None)

\* Nothing that counts changes.
LEMMA SameGood ==
  ASSUME NEW s, NEW t, NEW st, Good(s, st), SameDisplay(t, s) PROVE Good(t, st)
<1>1. \A c \in Crtcs : Equal(s.queue, st, t.queue, st, c) BY DEF SameDisplay, Equal
<1>2. \A c \in Crtcs : Like(s.queue, st, t.queue, st, c) BY <1>1, EqualLike
<1>3. t.crtc = s.crtc /\ t.flip_active = s.flip_active /\ t.shown = s.shown /\ t.flying = s.flying
  BY DEF SameDisplay
<1> QED BY <1>2, <1>3, GoodSame

\* Attach.
LEMMA AttachFacts ==
  ASSUME NEW s \in State
  PROVE  Attach(s) \in State /\ SameDisplay(Attach(s), s) /\ AttachedScreen(Attach(s), s)
<1> DEFINE t == Attach(s)
<1>1. CASE ~ TearFree
  <2>1. t = s BY <1>1 DEF Attach
  <2> QED BY <1>1, <2>1, StateFacts DEF SameDisplay, AttachedScreen
<1>2. CASE TearFree
  <2> DEFINE yes == TRUE
             en == s.shadow_enabled \/ s.shadow = None
  <2>1. t = [s EXCEPT !.waits = yes, !.shadow_enabled = en] BY <1>2 DEF Attach
  <2>2. yes \in BOOLEAN /\ en \in BOOLEAN OBVIOUS
  <2>3. yes /\ (en <=> s.shadow_enabled \/ s.shadow = None) OBVIOUS
  <2>4. s = [crtc |-> s.crtc, flip_active |-> s.flip_active, dirty |-> s.dirty, shadow |-> s.shadow,
             shadow_enabled |-> s.shadow_enabled, waits |-> s.waits, shown |-> s.shown,
             flying |-> s.flying, queue |-> s.queue]
    BY StateFacts
  <2> HIDE DEF t, yes, en
  <2>5. t = [crtc |-> s.crtc, flip_active |-> s.flip_active, dirty |-> s.dirty, shadow |-> s.shadow,
             shadow_enabled |-> en, waits |-> yes, shown |-> s.shown,
             flying |-> s.flying, queue |-> s.queue]
    BY <2>1, <2>4
  <2>6. t \in State BY <2>2, <2>5, StateFacts DEF State
  <2>7. /\ t.crtc = s.crtc /\ t.flip_active = s.flip_active /\ t.shown = s.shown /\ t.flying = s.flying
        /\ t.queue = s.queue /\ t.shadow = s.shadow /\ t.waits = yes /\ t.shadow_enabled = en
    BY <2>5
  <2>8. SameDisplay(t, s) BY <2>7 DEF SameDisplay
  <2>9. AttachedScreen(t, s) BY <1>2, <2>3, <2>7 DEF AttachedScreen
  <2> QED BY <2>6, <2>8, <2>9 DEF t
<1> QED BY <1>1, <1>2

\* Detach.
LEMMA DetachFacts ==
  ASSUME NEW s \in State
  PROVE  /\ Detach(s) \in State /\ SameDisplay(Detach(s), s)
         /\ IF On(s) = {} THEN Detached(Detach(s)) ELSE SameScreen(Detach(s), s)
<1> DEFINE t == Detach(s)
<1>1. CASE On(s) # {}
  <2>1. t = s BY <1>1 DEF Detach
  <2> QED BY <1>1, <2>1 DEF SameDisplay, SameScreen
<1>2. CASE On(s) = {}
  <2> DEFINE no == FALSE
  <2>1. t = [s EXCEPT !.shadow = None, !.shadow_enabled = no, !.waits = no] BY <1>2 DEF Detach
  <2>2. no \in BOOLEAN /\ no = FALSE OBVIOUS
  <2>4. s = [crtc |-> s.crtc, flip_active |-> s.flip_active, dirty |-> s.dirty, shadow |-> s.shadow,
             shadow_enabled |-> s.shadow_enabled, waits |-> s.waits, shown |-> s.shown,
             flying |-> s.flying, queue |-> s.queue]
    BY StateFacts
  <2> HIDE DEF t, no
  <2>5. t = [crtc |-> s.crtc, flip_active |-> s.flip_active, dirty |-> s.dirty, shadow |-> None,
             shadow_enabled |-> no, waits |-> no, shown |-> s.shown,
             flying |-> s.flying, queue |-> s.queue]
    BY <2>1, <2>4
  <2>6. t \in State BY <2>2, <2>5, StateFacts DEF State
  <2>7. /\ t.crtc = s.crtc /\ t.flip_active = s.flip_active /\ t.shown = s.shown /\ t.flying = s.flying
        /\ t.queue = s.queue /\ t.shadow = None /\ t.waits = no /\ t.shadow_enabled = no
    BY <2>5
  <2>8. SameDisplay(t, s) BY <2>7 DEF SameDisplay
  <2>9. Detached(t) BY <2>2, <2>7 DEF Detached
  <2> QED BY <1>2, <2>6, <2>8, <2>9 DEF t
<1> QED BY <1>1, <1>2

\* sna_crtc_set_mode.
LEMMA SetModeFacts ==
  ASSUME NEW s \in State, NEW st, Good(s, st), NEW c \in Crtcs, front \in Bo
  PROVE  LET t == SetMode(s, c) IN
         t \in State /\ Good(t, st) /\ SameFlips(t, s) /\ AttachedScreen(t, s)
<1> DEFINE shows == [d \in {c} |-> front]
           r == Attached(s, shows)
           t == SetMode(s, c)
<1>1. DOMAIN shows \subseteq Crtcs /\ \A d \in DOMAIN shows : shows[d] \in Bo \cup {None} OBVIOUS
<1>2. t = Attach(r) BY DEF SetMode
<1> HIDE DEF shows, t
<1>3. AttachedAs(r, s, shows) /\ Good(r, st) BY <1>1, AttachedFacts, GoodAttached
<1> HIDE DEF r
<1>4. r \in State /\ SameFlips(r, s) /\ SameScreen(r, s) BY <1>3 DEF AttachedAs, SameFlips
<1>5. t \in State /\ SameDisplay(t, r) /\ AttachedScreen(t, r) BY <1>2, <1>4, AttachFacts
<1>6. Good(t, st) BY <1>3, <1>5, SameGood
<1>7. SameFlips(t, s) BY <1>4, <1>5 DEF SameDisplay, SameFlips
<1>8. AttachedScreen(t, s) BY <1>4, <1>5 DEF SameScreen, AttachedScreen
<1> QED BY <1>5, <1>6, <1>7, <1>8 DEF t

\* sna_crtc_disable.
DisabledAs(t, s, cs) ==
  /\ t \in State /\ SameFlips(t, s) /\ (SameScreen(t, s) \/ Detached(t))
  /\ \A c \in Crtcs : /\ t.shown[c] = (IF c \in cs THEN None ELSE s.shown[c])
                      /\ t.flying[c] = (IF c \in cs THEN None ELSE s.flying[c])
\* What is switched off.
LEMMA DisableFacts ==
  ASSUME NEW s \in State, NEW st, Good(s, st), NEW cs \in SUBSET Crtcs
  PROVE  DisabledAs(Disable(s, cs), s, cs) /\ Good(Disable(s, cs), st)
<1> DEFINE shows == [d \in cs |-> None]
           r == Attached(s, shows)
           t == Disable(s, cs)
<1>1. DOMAIN shows = cs /\ \A d \in cs : shows[d] = None OBVIOUS
<1>2. t = Detach(r) BY DEF Disable
<1> HIDE DEF shows, t
<1>a. DOMAIN shows \subseteq Crtcs /\ \A d \in DOMAIN shows : shows[d] \in Bo \cup {None} BY <1>1
<1>3. AttachedAs(r, s, shows) /\ Good(r, st) BY <1>a, AttachedFacts, GoodAttached
<1> HIDE DEF r
<1>4. /\ r \in State /\ SameFlips(r, s) /\ SameScreen(r, s)
      /\ \A c \in Crtcs : /\ r.shown[c] = (IF c \in cs THEN None ELSE s.shown[c])
                          /\ r.flying[c] = (IF c \in cs THEN None ELSE s.flying[c])
  BY <1>1, <1>3 DEF AttachedAs, SameFlips
<1>5. t \in State /\ SameDisplay(t, r) /\ (SameScreen(t, r) \/ Detached(t)) BY <1>2, <1>4, DetachFacts
<1>6. Good(t, st) BY <1>3, <1>5, SameGood
<1>7. SameFlips(t, s) BY <1>4, <1>5 DEF SameDisplay, SameFlips
<1>8. SameScreen(t, s) \/ Detached(t) BY <1>4, <1>5 DEF SameScreen
<1>9. t.shown = r.shown /\ t.flying = r.flying BY <1>5 DEF SameDisplay
<1>10. DisabledAs(t, s, cs) BY <1>4, <1>5, <1>7, <1>8, <1>9 DEF DisabledAs
<1> QED BY <1>6, <1>10 DEF t

\* sna_mode_restore, without TearFree.
RestoredAs(t, s) ==
  /\ t \in State /\ SameFlips(t, s) /\ (SameScreen(t, s) \/ Detached(t))
  /\ \A c \in Crtcs : t.flying[c] = IF c \in On(s) THEN None ELSE s.flying[c]
\* What is restored.
LEMMA RestoredFacts ==
  ASSUME NEW s \in State, NEW st, Good(s, st), NEW keep, front \in Bo, ~ TearFree
  PROVE  RestoredAs(Restored(s, keep), s) /\ Good(Restored(s, keep), st)
<1> DEFINE on == On(s)
           shows == [c \in on |-> IF c \in keep THEN front ELSE None]
           r == Attached(s, shows)
           t == Restored(s, keep)
<1>0. on \subseteq Crtcs BY DEF On
<1>1. DOMAIN shows = on OBVIOUS
<1>a. DOMAIN shows \subseteq Crtcs /\ \A d \in DOMAIN shows : shows[d] \in Bo \cup {None} BY <1>0
<1>2. t = IF On(r) # {} THEN Attach(r) ELSE Detach(r) BY DEF Restored
<1> HIDE DEF shows, t
<1>3. AttachedAs(r, s, shows) /\ Good(r, st) BY <1>a, AttachedFacts, GoodAttached
<1> HIDE DEF r
<1>4. /\ r \in State /\ SameFlips(r, s) /\ SameScreen(r, s)
      /\ \A c \in Crtcs : r.flying[c] = (IF c \in on THEN None ELSE s.flying[c])
  BY <1>1, <1>3 DEF AttachedAs, SameFlips
<1> HIDE DEF on
<1>5. t \in State /\ SameDisplay(t, r) /\ (SameScreen(t, r) \/ Detached(t))
  <2>1. CASE On(r) # {}
    <3>1. t = Attach(r) BY <1>2, <2>1
    <3>2. t = r BY <3>1 DEF Attach
    <3> QED BY <1>4, <3>2 DEF SameDisplay, SameScreen
  <2>2. CASE On(r) = {}
    <3>1. t = Detach(r) BY <1>2, <2>2
    <3> QED BY <1>4, <2>2, <3>1, DetachFacts
  <2> QED BY <2>1, <2>2
<1>6. Good(t, st) BY <1>3, <1>5, SameGood
<1>7. SameFlips(t, s) BY <1>4, <1>5 DEF SameDisplay, SameFlips
<1>8. SameScreen(t, s) \/ Detached(t) BY <1>4, <1>5 DEF SameScreen
<1>9. t.flying = r.flying BY <1>5 DEF SameDisplay
<1>10. RestoredAs(t, s) BY <1>4, <1>5, <1>7, <1>8, <1>9 DEF RestoredAs, on
<1> QED BY <1>6, <1>10 DEF t

\* sna_page_flip, on cs, with no flip outstanding.
FlipAllAs(t, s, cs, bo) ==
  /\ t \in State /\ SameScreen(t, s)
  /\ \A c \in Crtcs : /\ t.crtc[c].bo \in {s.crtc[c].bo, bo}
                      /\ c \in cs => t.crtc[c].flip_bo = bo /\ t.crtc[c].handler = "client"
                      /\ c \notin cs => t.crtc[c].flip_bo = None /\ t.flying[c] = None
\* What is flipped.
LEMMA FlipAllFacts ==
  ASSUME NEW s \in State, NEW st, Good(s, st), s.flip_active = 0, NEW cs \in SUBSET Crtcs,
         NEW fixup \in SUBSET Crtcs, NEW bo \in Bo
  PROVE  FlipAllAs(FlipAll(s, cs, fixup, bo), s, cs, bo) /\ Good(FlipAll(s, cs, fixup, bo), st)
<1> DEFINE r == Replaced(s, fixup, bo)
           t == FlipAll(s, cs, fixup, bo)
<1>1. t = Flipped(r, cs, bo, "client") BY DEF FlipAll
<1>2. \A c \in Crtcs : s.crtc[c].flip_bo = None BY NoneFlipping DEF Good
<1>a. \A c \in Crtcs : s.flying[c] = None BY <1>2 DEF Good, Sound, Resting
<1> HIDE DEF t
<1>3. ReplacedAs(r, s, fixup, bo) /\ Good(r, st) BY <1>2, ReplacedFacts, GoodReplaced
<1> HIDE DEF r
<1>4. /\ r \in State /\ SameScreen(r, s)
      /\ \A c \in Crtcs : r.crtc[c].flip_bo = None /\ r.flying[c] = None /\ r.crtc[c].bo \in {s.crtc[c].bo, bo}
  BY <1>2, <1>3, <1>a DEF ReplacedAs
<1>5. "client" \in {"shadow", "client", "none"} OBVIOUS
<1>6. FlippedAs(t, r, cs, bo, "client") /\ Good(t, st) BY <1>1, <1>3, <1>4, <1>5, FlippedFacts, GoodFlipped
<1>7. FlipAllAs(t, s, cs, bo) BY <1>4, <1>6 DEF FlippedAs, FlipAllAs, SameScreen
<1> QED BY <1>6, <1>7 DEF t

\* sna_mode_redisplay, on cs, with no flip outstanding.
RedisplayedAs(t, s, cs, how) ==
  /\ t \in State /\ (SameScreen(t, s) \/ Detached(t))
  /\ \A c \in Crtcs : t.crtc[c].flip_bo # None => t.crtc[c].handler = "shadow"
  /\ (\A c \in cs : how[c] = "flip") =>
       /\ SameScreen(t, s) /\ t.shown = s.shown
       /\ \A c \in Crtcs : t.flying[c] \in {s.flying[c], front}
       /\ t.flip_active = 0 => t.flying = s.flying
\* What is redisplayed.
LEMMA RedisplayedFacts ==
  ASSUME NEW st, Display \in State, Good(Display, st), flip_active = 0, NEW cs \in SUBSET Crtcs, NEW how,
         front \in Bo
  PROVE  RedisplayedAs(Redisplayed(cs, how), Display, cs, how) /\ Good(Redisplayed(cs, how), st)
<1> DEFINE Those(way) == {c \in cs : how[c] = way}
           s == Display
           m == Those("mode")
           f == Those("flip")
           o == Those("off")
           u == Replaced(s, m, front)
           r == Flipped(u, f, front, "shadow")
           t == Redisplayed(cs, how)
<1>1. t = IF o = {} THEN r ELSE Disable(r, o) BY DEF Redisplayed
<1>2. m \in SUBSET Crtcs /\ f \in SUBSET Crtcs /\ o \in SUBSET Crtcs OBVIOUS
<1>3. s.flip_active = 0 BY DEF Display
<1>4. (\A c \in cs : how[c] = "flip") => m = {} /\ o = {} OBVIOUS
<1>s. s \in State /\ Good(s, st) OBVIOUS
<1> HIDE DEF m, f, o, u, r, t, s
<1>5. \A c \in Crtcs : s.crtc[c].flip_bo = None BY <1>3, <1>s, NoneFlipping DEF Good
<1>6. \A c \in Crtcs : s.flying[c] = None BY <1>5, <1>s DEF Good, Sound, Resting
<1>7. ReplacedAs(u, s, m, front) /\ Good(u, st) BY <1>2, <1>5, <1>s, ReplacedFacts, GoodReplaced DEF u
<1>8. /\ u \in State /\ SameScreen(u, s) /\ u.flip_active = 0
      /\ \A c \in Crtcs : /\ u.crtc[c].flip_bo = None /\ u.flying[c] = None
                          /\ c \notin m => u.shown[c] = s.shown[c]
  BY <1>3, <1>5, <1>6, <1>7 DEF ReplacedAs
<1>9. "shadow" \in {"shadow", "client", "none"} OBVIOUS
<1>10. FlippedAs(r, u, f, front, "shadow") /\ Good(r, st)
  BY <1>2, <1>7, <1>8, <1>9, FlippedFacts, GoodFlipped DEF r
<1>11. /\ r \in State /\ SameScreen(r, s) /\ r.shown = u.shown /\ r.flip_active = Cardinality(f)
       /\ \A c \in Crtcs : /\ r.crtc[c].flip_bo # None => r.crtc[c].handler = "shadow"
                           /\ r.flying[c] = IF c \in f THEN front ELSE None
  <2>1. IsFiniteSet(f) BY <1>2, CrtcsFinite
  <2>2. Cardinality(f) \in Nat BY <2>1, FS_CardinalityType
  <2>3. r.flip_active = Cardinality(f) BY <1>8, <1>10, <2>2 DEF FlippedAs
  <2>4. ASSUME NEW c \in Crtcs
        PROVE  /\ r.crtc[c].flip_bo # None => r.crtc[c].handler = "shadow"
               /\ r.flying[c] = IF c \in f THEN front ELSE None
    <3>1. CASE c \in f BY <1>10, <3>1 DEF FlippedAs
    <3>2. CASE c \notin f
      <4>1. r.crtc[c] = u.crtc[c] /\ r.flying[c] = u.flying[c] BY <1>10, <3>2 DEF FlippedAs
      <4> QED BY <1>8, <3>2, <4>1
    <3> QED BY <3>1, <3>2
  <2> QED BY <1>8, <1>10, <2>3, <2>4 DEF FlippedAs, SameScreen
<1>12. CASE o = {}
  <2>1. t = r BY <1>1, <1>12
  <2>2. ASSUME \A c \in cs : how[c] = "flip" PROVE r.shown = s.shown
    <3>1. \A c \in Crtcs : r.shown[c] = s.shown[c] BY <1>4, <1>8, <1>11, <2>2
    <3>2. r.shown \in [Crtcs -> Bo \cup {None}] /\ s.shown \in [Crtcs -> Bo \cup {None}]
      BY <1>11, <1>s, StateFacts
    <3> QED BY <3>1, <3>2
  <2>3. \A c \in Crtcs : r.flying[c] \in {s.flying[c], front} BY <1>6, <1>11
  <2>4. ASSUME r.flip_active = 0 PROVE r.flying = s.flying
    <3>1. IsFiniteSet(f) BY <1>2, CrtcsFinite
    <3>2. f = {} BY <1>11, <2>4, <3>1, FS_EmptySet
    <3>3. \A c \in Crtcs : r.flying[c] = s.flying[c] BY <1>6, <1>11, <3>2
    <3>4. r.flying \in [Crtcs -> Bo \cup {None}] /\ s.flying \in [Crtcs -> Bo \cup {None}]
      BY <1>11, <1>s, StateFacts
    <3> QED BY <3>3, <3>4
  <2>5. RedisplayedAs(r, s, cs, how) BY <1>11, <2>2, <2>3, <2>4 DEF RedisplayedAs
  <2> QED BY <1>10, <2>1, <2>5 DEF t, s
<1>13. CASE o # {}
  <2>1. t = Disable(r, o) BY <1>1, <1>13
  <2>2. DisabledAs(t, r, o) /\ Good(t, st) BY <1>2, <1>10, <1>11, <2>1, DisableFacts
  <2>3. /\ t \in State /\ (SameScreen(t, s) \/ Detached(t))
        /\ \A c \in Crtcs : t.crtc[c].flip_bo # None => t.crtc[c].handler = "shadow"
    BY <1>11, <2>2 DEF DisabledAs, SameFlips, SameScreen
  <2>4. RedisplayedAs(t, s, cs, how) BY <1>4, <1>13, <2>3 DEF RedisplayedAs
  <2> QED BY <2>2, <2>4 DEF t, s
<1> QED BY <1>12, <1>13

\* There is a framebuffer that is not in use.
LEMMA CreatedFacts ==
  ASSUME NEW s \in State
  PROVE  /\ Created(s) \in Bo /\ Created(s) # front /\ Created(s) # s.shadow
         /\ \A c \in Crtcs : Created(s) # s.crtc[c].bo /\ Created(s) # s.crtc[c].flip_bo
<1> DEFINE f == [c \in Crtcs |-> s.crtc[c].bo]
           g == [c \in Crtcs |-> s.crtc[c].flip_bo]
           X == {s.crtc[c].bo : c \in Crtcs}
           Y == {s.crtc[c].flip_bo : c \in Crtcs}
           Z == {front, s.shadow}
           U == Z \cup X \cup Y
           n == num_real_crtc
<1>1. IsFiniteSet(Crtcs) /\ Cardinality(Crtcs) = n /\ n \in Nat BY CrtcsFinite, CrtcsAssumption
<1>2. f \in Surjection(Crtcs, X) /\ g \in Surjection(Crtcs, Y) BY DEF Surjection
<1>3. IsFiniteSet(Z) /\ Cardinality(Z) <= 2
  <2>1. IsFiniteSet({front}) /\ Cardinality({front}) = 1 BY FS_Singleton
  <2>2. Z = {front} \cup {s.shadow} OBVIOUS
  <2>3. /\ IsFiniteSet({front} \cup {s.shadow})
        /\ Cardinality({front} \cup {s.shadow}) =
             IF s.shadow \in {front} THEN Cardinality({front}) ELSE Cardinality({front}) + 1
    BY <2>1, FS_AddElement
  <2> QED BY <2>1, <2>2, <2>3
<1>c. Created(s) = CHOOSE b \in Bo : b \notin U BY DEF Created
<1>u. /\ front \in U /\ s.shadow \in U
      /\ \A c \in Crtcs : s.crtc[c].bo \in U /\ s.crtc[c].flip_bo \in U
  OBVIOUS
<1>z. U = Z \cup X \cup Y OBVIOUS
<1> HIDE DEF f, g, X, Y, Z, U, n
<1>4. IsFiniteSet(X) /\ Cardinality(X) <= n BY <1>1, <1>2, FS_Surjection
<1>5. IsFiniteSet(Y) /\ Cardinality(Y) <= n BY <1>1, <1>2, FS_Surjection
<1>6. IsFiniteSet(U) /\ Cardinality(U) <= 2 * n + 2
  <2> DEFINE V == Z \cup X
  <2>1. /\ IsFiniteSet(V) /\ Cardinality(V) = Cardinality(Z) + Cardinality(X) - Cardinality(Z \cap X)
    BY <1>3, <1>4, FS_Union
  <2>2. IsFiniteSet(Z \cap X) BY <1>3, FS_Intersection
  <2>3. Cardinality(Z \cap X) \in Nat BY <2>2, FS_CardinalityType
  <2>4. Cardinality(Z) \in Nat /\ Cardinality(X) \in Nat /\ Cardinality(Y) \in Nat
    BY <1>3, <1>4, <1>5, FS_CardinalityType
  <2>5. U = V \cup Y BY <1>z
  <2> HIDE DEF V
  <2>6. /\ IsFiniteSet(V \cup Y) /\ Cardinality(V \cup Y) = Cardinality(V) + Cardinality(Y) - Cardinality(V \cap Y)
    BY <2>1, <1>5, FS_Union
  <2>7. IsFiniteSet(V \cap Y) BY <2>1, FS_Intersection
  <2>8. Cardinality(V \cap Y) \in Nat BY <2>7, FS_CardinalityType
  <2> QED BY <1>1, <1>3, <1>4, <1>5, <2>1, <2>3, <2>4, <2>5, <2>6, <2>8
<1> DEFINE S == U \cap Bo
<1>7. IsFiniteSet(S) /\ Cardinality(S) <= Cardinality(U) BY <1>6, FS_Intersection
<1>8. Cardinality(S) \in Nat /\ Cardinality(U) \in Nat BY <1>6, <1>7, FS_CardinalityType
<1>9. Cardinality(S) <= 2 * n + 2 BY <1>1, <1>6, <1>7, <1>8
<1>10. S \in SUBSET Bo OBVIOUS
<1>11. S # Bo
  <2> HIDE DEF S
  <2> QED BY <1>7, <1>9, <1>10, BoAssumption DEF n
<1>12. \E b \in Bo : b \notin U BY <1>10, <1>11
<1> DEFINE b == Created(s)
<1>13. b \in Bo /\ b \notin U BY <1>12, <1>c
<1> HIDE DEF b
<1>14. b # front /\ b # s.shadow /\ \A c \in Crtcs : b # s.crtc[c].bo /\ b # s.crtc[c].flip_bo
  BY <1>13, <1>u
<1> QED BY <1>13, <1>14 DEF b

-----------------------------------------------------------------------------
(* What is true of the functions that are active.                            *)

\* Only what goes on is active.
Allowed(f) == (f.at = "present" => "present" \in world) /\ (f.at = "failed" => "refuse" \in world)
Fine(st) == st \in Seq(Frame) /\ \A d \in 1..Len(st) : Allowed(Under(st, d))
\* The sna_page_flip that failed last is active still, no flip has still to be made, and
\* what runs under it has handled all the events of flips that it has read.
TriesAt(fl, st, d) ==
  /\ d \in 1..Len(st) /\ Under(st, d).at = "failed"
  /\ \A e \in 1..Len(st) : e > d => Under(st, e).at # "failed"
  /\ \A c \in Crtcs : fl[c] = None /\ \A e \in 1..d, k \in Nat : ~ Slot(<<>>, st, e, k, c)
Tries(fl, st) == \E d \in Nat : TriesAt(fl, st, d)

\* What runs has changed, and all of this is as before.
Stacked(q, st, su) ==
  /\ Fine(su) /\ \A c \in Crtcs : Like(q, st, q, su, c)
  /\ \A fl : Tries(fl, st) => Tries(fl, su)

\* Where a read event is does not depend on the queue.
LEMMA ReadSlot ==
  ASSUME NEW q, NEW r, NEW st, NEW d \in Nat \ {0}, NEW k, NEW c
  PROVE  Slot(q, st, d, k, c) <=> Slot(r, st, d, k, c)
BY DEF Slot

\* One change after the other.
LEMMA StackedTrans ==
  ASSUME NEW q, NEW st, NEW su, NEW sv, Stacked(q, st, su), Stacked(q, su, sv) PROVE Stacked(q, st, sv)
<1>1. ASSUME NEW c \in Crtcs PROVE Like(q, st, q, sv, c)
  <2>1. Like(q, st, q, su, c) /\ Like(q, su, q, sv, c) BY DEF Stacked
  <2> QED BY <2>1 DEF Like
<1> QED BY <1>1 DEF Stacked

\* Nothing has changed.
LEMMA StackedSame ==
  ASSUME NEW q, NEW st, Fine(st) PROVE Stacked(q, st, st)
<1>1. \A c \in Crtcs : Like(q, st, q, st, c) BY DEF Like
<1> QED BY <1>1 DEF Stacked

\* A function is called.
LEMMA StackedPush ==
  ASSUME NEW q, NEW st, Fine(st), NEW f \in Frame, Allowed(f), f.at # "failed",
         f.at = "read" => f.buffer = <<>>
  PROVE  Stacked(q, st, <<f>> \o st)
<1> DEFINE su == <<f>> \o st
<1>0. st \in Seq(Frame) BY DEF Fine
<1>1. /\ su \in Seq(Frame) /\ Len(su) = Len(st) + 1 /\ Under(su, Len(su)) = f
      /\ \A d \in 1..Len(st) : Under(su, d) = Under(st, d)
  BY <1>0, PushFacts
<1>2. \A p, c : Equal(p, st, p, su, c) BY <1>0, PushSlots
<1> HIDE DEF su
<1>3. Len(st) \in Nat BY <1>0
<1>4. \A d \in 1..Len(su) : d \in 1..Len(st) \/ d = Len(su) BY <1>1, <1>3
<1>5. Fine(su)
  <2>1. \A d \in 1..Len(su) : Allowed(Under(su, d)) BY <1>1, <1>4 DEF Fine
  <2> QED BY <1>1, <2>1 DEF Fine
<1>6. \A c \in Crtcs : Like(q, st, q, su, c) BY <1>2, EqualLike
<1>7. ASSUME NEW fl, Tries(fl, st) PROVE Tries(fl, su)
  <2>1. PICK d \in Nat : TriesAt(fl, st, d) BY <1>7 DEF Tries
  <2>2. d \in 1..Len(su) /\ Under(su, d).at = "failed"
    <3>1. d \in 1..Len(st) /\ Under(st, d).at = "failed" BY <2>1 DEF TriesAt
    <3> QED BY <1>1, <1>3, <3>1
  <2>3. ASSUME NEW e \in 1..Len(su), e > d PROVE Under(su, e).at # "failed"
    <3>1. CASE e \in 1..Len(st) BY <1>1, <2>1, <2>3, <3>1 DEF TriesAt
    <3>2. CASE e = Len(su) BY <1>1, <3>2
    <3> QED BY <1>4, <3>1, <3>2
  <2>4. ASSUME NEW c \in Crtcs, NEW e \in 1..d, NEW k \in Nat PROVE ~ Slot(<<>>, su, e, k, c)
    <3>1. e \in Nat BY <2>1
    <3>2. ~ Slot(<<>>, st, e, k, c) BY <2>1 DEF TriesAt
    <3>3. Equal(<<>>, st, <<>>, su, c) BY <1>2
    <3> QED BY <3>1, <3>2, <3>3 DEF Equal
  <2>5. TriesAt(fl, su, d) BY <2>1, <2>2, <2>3, <2>4 DEF TriesAt
  <2> QED BY <2>5 DEF Tries
<1> QED BY <1>5, <1>6, <1>7 DEF Stacked, su

\* A function returns.
LEMMA StackedPop ==
  ASSUME NEW q, NEW st, Fine(st), st # <<>>, Head(st).at # "failed",
         Head(st).at = "read" => Head(st).buffer = <<>>
  PROVE  Stacked(q, st, Tail(st))
<1> DEFINE su == Tail(st)
<1>0. st \in Seq(Frame) BY DEF Fine
<1>1. /\ su \in Seq(Frame) /\ Len(su) = Len(st) - 1 /\ Len(st) \in Nat \ {0}
      /\ Under(st, Len(st)) = Head(st)
      /\ \A d \in 1..Len(su) : Under(su, d) = Under(st, d)
  BY <1>0, PopFacts
<1>2. \A p, c : Equal(p, st, p, su, c) BY <1>0, PopSlots
<1> HIDE DEF su
<1>4. \A d \in 1..Len(st) : d \in 1..Len(su) \/ d = Len(st) BY <1>1
<1>a. \A d \in 1..Len(su) : d \in 1..Len(st) BY <1>1
<1>5. Fine(su)
  <2>1. \A d \in 1..Len(su) : Allowed(Under(su, d)) BY <1>1, <1>a DEF Fine
  <2> QED BY <1>1, <2>1 DEF Fine
<1>6. \A c \in Crtcs : Like(q, st, q, su, c) BY <1>2, EqualLike
<1>7. ASSUME NEW fl, Tries(fl, st) PROVE Tries(fl, su)
  <2>1. PICK d \in Nat : TriesAt(fl, st, d) BY <1>7 DEF Tries
  <2>2. d \in 1..Len(su) /\ Under(su, d).at = "failed"
    <3>1. d \in 1..Len(st) /\ Under(st, d).at = "failed" BY <2>1 DEF TriesAt
    <3>2. d # Len(st) BY <1>1, <3>1
    <3> QED BY <1>1, <1>4, <3>1, <3>2
  <2>3. ASSUME NEW e \in 1..Len(su), e > d PROVE Under(su, e).at # "failed"
    BY <1>1, <1>a, <2>1, <2>3 DEF TriesAt
  <2>4. ASSUME NEW c \in Crtcs, NEW e \in 1..d, NEW k \in Nat PROVE ~ Slot(<<>>, su, e, k, c)
    <3>1. e \in Nat BY <2>1
    <3>2. ~ Slot(<<>>, st, e, k, c) BY <2>1 DEF TriesAt
    <3>3. Equal(<<>>, st, <<>>, su, c) BY <1>2
    <3> QED BY <3>1, <3>2, <3>3 DEF Equal
  <2>5. TriesAt(fl, su, d) BY <2>1, <2>2, <2>3, <2>4 DEF TriesAt
  <2> QED BY <2>5 DEF Tries
<1> QED BY <1>5, <1>6, <1>7 DEF Stacked, su

\* What runs last goes on as f.
LEMMA StackedTop ==
  ASSUME NEW q, NEW st, Fine(st), st # <<>>, Head(st).at # "failed",
         Head(st).at = "read" => Head(st).buffer = <<>>,
         NEW f \in Frame, Allowed(f), f.at # "failed", f.at = "read" => f.buffer = <<>>
  PROVE  Stacked(q, st, <<f>> \o Tail(st))
<1> DEFINE su == Tail(st)
           sv == <<f>> \o su
<1>1. Stacked(q, st, su) BY StackedPop
<1>2. Fine(su) BY <1>1 DEF Stacked
<1> HIDE DEF su
<1>3. Stacked(q, su, sv) BY <1>2, StackedPush
<1> HIDE DEF sv
<1>4. Stacked(q, st, sv) BY <1>1, <1>3, StackedTrans
<1> QED BY <1>4 DEF su, sv

\* An event is taken from what was read.
LEMMA TakenFacts ==
  ASSUME NEW q \in Seq(Event), NEW st, Fine(st), st # <<>>, Head(st).at = "read", Head(st).buffer # <<>>
  PROVE  /\ Fine(Taken(st)) /\ \A fl : Tries(fl, st) => Tries(fl, Taken(st))
         /\ (\A c \in Crtcs : Head(Head(st).buffer) # FlipOf(c)) => Stacked(q, st, Taken(st))
<1> DEFINE su == Taken(st)
           hd == Head(Head(st).buffer)
<1>0. st \in Seq(Frame) BY DEF Fine
<1>1. /\ su \in Seq(Frame) /\ Len(su) = Len(st)
      /\ \A d \in 1..Len(st) : Under(su, d).at = Under(st, d).at
  BY <1>0, TakeSlots
<1>2. \A c : hd # FlipOf(c) => Like(q, st, q, su, c) BY <1>0, TakeSlots
<1>3. <<>> \in Seq(Event) OBVIOUS
<1>4. \A c : \A d, k \in Nat : Slot(<<>>, su, d, k, c) => \E j \in Nat : Slot(<<>>, st, d, j, c)
  BY <1>0, <1>3, TakeSlots
<1> HIDE DEF su, hd
<1>5. Fine(su)
  <2>1. \A d \in 1..Len(su) : Allowed(Under(su, d)) BY <1>1 DEF Fine, Allowed
  <2> QED BY <1>1, <2>1 DEF Fine
<1>6. ASSUME NEW fl, Tries(fl, st) PROVE Tries(fl, su)
  <2>1. PICK d \in Nat : TriesAt(fl, st, d) BY <1>6 DEF Tries
  <2>2. d \in 1..Len(su) /\ Under(su, d).at = "failed" BY <1>1, <2>1 DEF TriesAt
  <2>3. ASSUME NEW e \in 1..Len(su), e > d PROVE Under(su, e).at # "failed"
    BY <1>1, <2>1, <2>3 DEF TriesAt
  <2>4. ASSUME NEW c \in Crtcs, NEW e \in 1..d, NEW k \in Nat PROVE ~ Slot(<<>>, su, e, k, c)
    <3>1. e \in Nat BY <2>1
    <3>2. \A j \in Nat : ~ Slot(<<>>, st, e, j, c) BY <2>1 DEF TriesAt
    <3> QED BY <1>4, <3>1, <3>2
  <2>5. TriesAt(fl, su, d) BY <2>1, <2>2, <2>3, <2>4 DEF TriesAt
  <2> QED BY <2>5 DEF Tries
<1> QED BY <1>2, <1>5, <1>6 DEF Stacked, su, hd

-----------------------------------------------------------------------------
(* The inductive invariant.                                                  *)

\* The types, but for the functions that are active.
Types ==
  /\ Display \in State
  /\ has_flip \in BOOLEAN /\ front \in Bo /\ damage \in BOOLEAN /\ image \subseteq Bo
  /\ shadow_events \in Seq(Vblanks) /\ client \in {"idle", "trying", "flying"}
  /\ vblank \in [Vblanks -> {"new", "asked", "sent", "told", "twice", "lost"}]
\* TearFree, and it alone, has a second framebuffer.
Screened ==
  /\ shadow # front /\ (shadow_enabled => shadow # None) /\ (~ TearFree => shadow = None)
\* What goes on.
Permitted ==
  /\ world \in Worlds /\ world \subseteq Anything
  /\ {"tearfree", "refuse"} \subseteq world => world \cap {"present", "modes"} = {}
  /\ "refuse" \notin world => has_flip
  /\ Fine(stack)
\* Present waits for the flips of a sna_page_flip that failed.
Trying == client = "trying" => Tries(flying, stack)

IInv ==
  /\ Types /\ Good(Display, stack) /\ Screened /\ Permitted
  /\ DrawnHidden /\ FlipOwned /\ Trying

\* The display, before and after.
LEMMA DisplayFacts ==
  /\ Display.crtc = crtc /\ Display.flip_active = flip_active /\ Display.dirty = dirty
  /\ Display.shadow = shadow /\ Display.shadow_enabled = shadow_enabled /\ Display.waits = waits
  /\ Display.shown = shown /\ Display.flying = flying /\ Display.queue = queue
BY DEF Display
\* After.
LEMMA DisplayAfter ==
  /\ Display'.crtc = crtc' /\ Display'.flip_active = flip_active' /\ Display'.dirty = dirty'
  /\ Display'.shadow = shadow' /\ Display'.shadow_enabled = shadow_enabled' /\ Display'.waits = waits'
  /\ Display'.shown = shown' /\ Display'.flying = flying' /\ Display'.queue = queue'
  /\ Display' = [crtc |-> crtc', flip_active |-> flip_active', dirty |-> dirty', shadow |-> shadow',
                 shadow_enabled |-> shadow_enabled', waits |-> waits',
                 shown |-> shown', flying |-> flying', queue |-> queue']
BY DEF Display

\* The display becomes s.
LEMMA BecomeFacts ==
  ASSUME NEW s, s \in State, Become(s) PROVE Display' = s
<1>1. s = [crtc |-> s.crtc, flip_active |-> s.flip_active, dirty |-> s.dirty, shadow |-> s.shadow,
           shadow_enabled |-> s.shadow_enabled, waits |-> s.waits, shown |-> s.shown,
           flying |-> s.flying, queue |-> s.queue]
  BY StateFacts
<1>2. /\ crtc' = s.crtc /\ flip_active' = s.flip_active /\ dirty' = s.dirty /\ shadow' = s.shadow
      /\ shadow_enabled' = s.shadow_enabled /\ waits' = s.waits
      /\ shown' = s.shown /\ flying' = s.flying /\ queue' = s.queue
  BY DEF Become
<1> QED BY <1>1, <1>2, DisplayAfter

\* Nothing runs: Present does not try.
LEMMA IdleFacts ==
  ASSUME IInv, Idle PROVE client # "trying"
<1>1. SUFFICES ASSUME client = "trying" PROVE FALSE OBVIOUS
<1>2. Tries(flying, stack) BY <1>1 DEF IInv, Trying
<1>3. PICK d \in Nat : TriesAt(flying, stack, d) BY <1>2 DEF Tries
<1>4. stack = <<>> BY DEF Idle
<1>5. Len(<<>>) = 0 OBVIOUS
<1>6. d \in 1..Len(stack) BY <1>3 DEF TriesAt
<1> QED BY <1>4, <1>5, <1>6

\* Only what runs has changed, and what is not about the display.
LEMMA StackStep ==
  ASSUME IInv, Stacked(queue, stack, stack'),
         UNCHANGED <<crtc, flip_active, shadow, waits, front, client, shown, flying, queue, world>>,
         dirty' \in BOOLEAN, has_flip' \in BOOLEAN, "refuse" \notin world => has_flip',
         shadow_enabled' \in BOOLEAN, shadow_enabled' => shadow_enabled,
         damage' \in BOOLEAN, image' \subseteq Bo, shadow_events' \in Seq(Vblanks),
         vblank' \in [Vblanks -> {"new", "asked", "sent", "told", "twice", "lost"}]
  PROVE  IInv'
<1>1. /\ Types /\ Good(Display, stack) /\ Screened /\ Permitted /\ DrawnHidden /\ FlipOwned /\ Trying
  BY DEF IInv
<1>2. /\ crtc' = crtc /\ flip_active' = flip_active /\ shadow' = shadow /\ waits' = waits
      /\ front' = front /\ client' = client /\ shown' = shown /\ flying' = flying /\ queue' = queue
      /\ world' = world
  OBVIOUS
<1>3. Display \in State BY <1>1 DEF Types
<1>4. Display' \in State
  <2>1. /\ crtc \in [Crtcs -> SnaCrtc] /\ flip_active \in Nat /\ shadow \in Bo \cup {None}
        /\ waits \in BOOLEAN /\ shown \in [Crtcs -> Bo \cup {None}]
        /\ flying \in [Crtcs -> Bo \cup {None}] /\ queue \in Seq(Event)
    BY <1>3, StateFacts, DisplayFacts
  <2> QED BY <1>2, <2>1, DisplayAfter DEF State
<1>5. Types' BY <1>1, <1>2, <1>4 DEF Types
<1>6. Good(Display', stack')
  <2> DEFINE s == Display
             t == Display'
             su == stack'
             q == t.queue
  <2>1. /\ t.crtc = s.crtc /\ t.flip_active = s.flip_active /\ t.shown = s.shown /\ t.flying = s.flying
    BY <1>2, DisplayFacts, DisplayAfter
  <2>2. s.queue = queue /\ q = queue BY <1>2, DisplayFacts, DisplayAfter
  <2>3. \A c \in Crtcs : Like(s.queue, stack, q, su, c) BY <2>2 DEF Stacked
  <2>4. Good(s, stack) BY <1>1
  <2> HIDE DEF s, t, su
  <2>5. Good(t, su) BY <2>1, <2>3, <2>4, GoodSame
  <2> QED BY <2>5 DEF t, su
<1>7. Screened' BY <1>1, <1>2 DEF Screened, TearFree
<1>8. Permitted'
  <2>1. (\A f : Allowed(f) <=> Allowed(f)')
    BY <1>2 DEF Allowed
  <2>2. Fine(stack') BY DEF Stacked
  <2>3. Fine(stack)' BY <1>2, <2>2 DEF Fine, Allowed, Under
  <2> QED BY <1>1, <1>2, <2>3 DEF Permitted
<1>9. DrawnHidden' BY <1>1, <1>2 DEF DrawnHidden, TearFree
<1>10. FlipOwned' BY <1>1, <1>2 DEF FlipOwned
<1>11. Trying'
  <2>1. Tries(flying, stack) => Tries(flying, stack') BY DEF Stacked
  <2>2. Tries(flying, stack') <=> Tries(flying, stack)' BY <1>2 DEF Tries, TriesAt, Under, Slot, FlipOf
  <2> QED BY <1>1, <1>2, <2>1, <2>2 DEF Trying
<1>12. Good(Display, stack)' 
  <2>1. Good(Display', stack') <=> Good(Display, stack)' 
    BY DEF Good, Counted, Flipping, Sound, Resting, Waiting, Made, Once, Some, Slot, Under, FlipOf
  <2> QED BY <1>6, <2>1
<1> QED BY <1>5, <1>7, <1>8, <1>9, <1>10, <1>11, <1>12 DEF IInv

-----------------------------------------------------------------------------
(* The steps that change only what runs.                                     *)

\* What the steps start from.
LEMMA TypeFacts ==
  ASSUME IInv
  PROVE  /\ dirty \in BOOLEAN /\ has_flip \in BOOLEAN /\ shadow_enabled \in BOOLEAN /\ damage \in BOOLEAN
         /\ waits \in BOOLEAN /\ image \subseteq Bo /\ front \in Bo
         /\ shadow_events \in Seq(Vblanks) /\ queue \in Seq(Event) /\ stack \in Seq(Frame) /\ Fine(stack)
         /\ vblank \in [Vblanks -> {"new", "asked", "sent", "told", "twice", "lost"}]
         /\ "refuse" \notin world => has_flip
<1>1. Types /\ Permitted BY DEF IInv
<1>2. Display \in State BY <1>1 DEF Types
<1>3. /\ dirty \in BOOLEAN /\ shadow_enabled \in BOOLEAN /\ waits \in BOOLEAN /\ queue \in Seq(Event)
  BY <1>2, StateFacts, DisplayFacts
<1>4. Fine(stack) /\ stack \in Seq(Frame) BY <1>1 DEF Permitted, Fine
<1> QED BY <1>1, <1>3, <1>4 DEF Types, Permitted

\* A function that was called alone.
LEMMA Alone ==
  ASSUME NEW T, NEW f \in T PROVE <<f>> \o <<>> = <<f>>
<1>1. <<f>> \in Seq(T) OBVIOUS
<1> QED BY <1>1, ConcatEmptySeq

\* Two that were called.
LEMMA Pair ==
  ASSUME NEW T, NEW f \in T, NEW g \in T PROVE <<f>> \o <<g>> = <<f, g>>
<1>1. <<f>> \in Seq(T) /\ <<g>> \in Seq(T) /\ Len(<<f>>) = 1 /\ Len(<<g>>) = 1 /\ <<f>>[1] = f /\ <<g>>[1] = g
  OBVIOUS
<1> DEFINE r == <<f>> \o <<g>>
<1>2. /\ r \in Seq(T) /\ Len(r) = 2 /\ \A i \in 1..2 : r[i] = IF i <= 1 THEN <<f>>[i] ELSE <<g>>[i - 1]
  BY <1>1, ConcatProperties
<1>3. r[1] = f /\ r[2] = g BY <1>1, <1>2
<1> HIDE DEF r
<1>4. r = <<f, g>> BY <1>2, <1>3
<1> QED BY <1>4 DEF r

\* What runs last.
LEMMA TopOf ==
  ASSUME IInv, stack # <<>>
  PROVE  Head(stack) \in Frame /\ Allowed(Head(stack))
<1>1. stack \in Seq(Frame) /\ \A d \in 1..Len(stack) : Allowed(Under(stack, d)) BY TypeFacts DEF Fine
<1>2. Head(stack) \in Frame /\ Len(stack) \in Nat \ {0} /\ Under(stack, Len(stack)) = Head(stack)
  BY <1>1, PopFacts
<1>3. Len(stack) \in 1..Len(stack) BY <1>2
<1> QED BY <1>1, <1>2, <1>3

\* A vblank is asked for.
LEMMA AskVblankStep ==
  ASSUME IInv, NEW v \in Vblanks, AskVblank(v) PROVE IInv'
<1>1. Stacked(queue, stack, stack') BY StackedSame, TypeFacts DEF AskVblank
<1>2. vblank' \in [Vblanks -> {"new", "asked", "sent", "told", "twice", "lost"}]
  BY TypeFacts DEF AskVblank
<1>3. /\ UNCHANGED <<crtc, flip_active, shadow, waits, front, client, shown, flying, queue, world>>
      /\ UNCHANGED <<dirty, has_flip, shadow_enabled, damage, image, shadow_events>>
  BY DEF AskVblank, modes, screen, kernel
<1> QED BY <1>1, <1>2, <1>3, TypeFacts, StackStep

\* sna_crtc_config_notify begins.
LEMMA ConfigNotifyStep ==
  ASSUME IInv, ConfigNotify PROVE IInv'
<1>1. Stacked(queue, stack, stack')
  <2> DEFINE st == <<Notify>> \o stack
             su == <<Read>> \o st
  <2>1. stack = <<>> /\ stack' = <<Read, Notify>> BY DEF ConfigNotify, Idle
  <2>2. /\ Read \in Frame /\ Read.at = "read" /\ Read.buffer = <<>> /\ Notify \in Frame /\ Notify.at = "notify"
    BY FrameFacts
  <2>a. Allowed(Read) /\ Allowed(Notify) BY <2>2 DEF Allowed
  <2>3. Stacked(queue, stack, st) BY <2>2, <2>a, StackedPush, TypeFacts
  <2>4. st = <<Notify>> BY <2>1, <2>2, Alone
  <2>5. su = <<Read, Notify>> BY <2>2, <2>4, Pair
  <2> HIDE DEF st
  <2>6. Fine(st) BY <2>3 DEF Stacked
  <2>7. Stacked(queue, st, su) BY <2>2, <2>a, <2>6, StackedPush
  <2>8. Stacked(queue, stack, su) BY <2>3, <2>7, StackedTrans
  <2> QED BY <2>1, <2>5, <2>8
<1>3. /\ UNCHANGED <<crtc, flip_active, shadow, waits, front, client, shown, flying, queue, world>>
      /\ UNCHANGED <<dirty, has_flip, shadow_enabled, damage, image, shadow_events, vblank>>
  BY DEF ConfigNotify, modes, screen, kernel, clients
<1> QED BY <1>1, <1>3, TypeFacts, StackStep

\* It ends.
LEMMA ConfigNotifiedStep ==
  ASSUME IInv, ConfigNotified PROVE IInv'
<1>1. Stacked(queue, stack, stack') BY StackedPop, TypeFacts DEF ConfigNotified, At
<1>3. /\ UNCHANGED <<crtc, flip_active, shadow, waits, front, client, shown, flying, queue, world>>
      /\ UNCHANGED <<shadow_enabled, damage, image, shadow_events, vblank>>
      /\ has_flip' = TRUE /\ dirty' = FALSE
  BY DEF ConfigNotified, modes, screen, kernel, clients
<1> QED BY <1>1, <1>3, TypeFacts, StackStep

\* sna_page_flip does nothing.
LEMMA PageFlipRefusedStep ==
  ASSUME IInv, NEW bo, NEW gives_up \in BOOLEAN, PageFlipRefused(bo, gives_up) PROVE IInv'
<1>1. Stacked(queue, stack, stack') BY StackedPop, TypeFacts DEF PageFlipRefused, Flips, At
<1>3. /\ UNCHANGED <<crtc, flip_active, shadow, waits, front, client, shown, flying, queue, world>>
      /\ UNCHANGED <<dirty, shadow_enabled, damage, image, shadow_events, vblank>>
      /\ has_flip' \in BOOLEAN /\ "refuse" \in world
  BY DEF PageFlipRefused, modes, screen, kernel, clients
<1> QED BY <1>1, <1>3, TypeFacts, StackStep

\* Another sna_mode_wakeup is called.
LEMMA ReadCalled ==
  ASSUME IInv PROVE Stacked(queue, stack, <<Read>> \o stack)
<1>1. Read \in Frame /\ Read.at = "read" /\ Read.buffer = <<>> BY FrameFacts
<1>2. Allowed(Read) BY <1>1 DEF Allowed
<1> QED BY <1>1, <1>2, StackedPush, TypeFacts

\* The events of the flips that were made are waited for.
LEMMA RestoreAgainStep ==
  ASSUME IInv, RestoreAgain PROVE IInv'
<1>1. Stacked(queue, stack, stack') BY ReadCalled DEF RestoreAgain
<1>3. /\ UNCHANGED <<crtc, flip_active, shadow, waits, front, client, shown, flying, queue, world>>
      /\ UNCHANGED <<dirty, has_flip, shadow_enabled, damage, image, shadow_events, vblank>>
  BY DEF RestoreAgain, modes, screen, kernel, clients
<1> QED BY <1>1, <1>3, TypeFacts, StackStep

\* sna_present_flip polls.
LEMMA PresentPollsStep ==
  ASSUME IInv, PresentPolls PROVE IInv'
<1>1. Stacked(queue, stack, stack') BY ReadCalled DEF PresentPolls
<1>3. /\ UNCHANGED <<crtc, flip_active, shadow, waits, front, client, shown, flying, queue, world>>
      /\ UNCHANGED <<dirty, has_flip, shadow_enabled, damage, image, shadow_events, vblank>>
  BY DEF PresentPolls, modes, screen, kernel, clients
<1> QED BY <1>1, <1>3, TypeFacts, StackStep

\* Present is to flip.
LEMMA FlipCalled ==
  ASSUME IInv, NEW q, NEW st, Fine(st), "present" \in world PROVE Stacked(q, st, <<PresentFlips>> \o st)
<1>1. PresentFlips \in Frame /\ PresentFlips.at = "present" BY FrameFacts
<1>2. Allowed(PresentFlips) BY <1>1 DEF Allowed
<1> QED BY <1>1, <1>2, StackedPush

\* sna_present_flip begins.
LEMMA PresentRequestStep ==
  ASSUME IInv, PresentRequest PROVE IInv'
<1>1. Stacked(queue, stack, stack')
  <2>1. stack = <<>> /\ stack' = <<PresentFlips>> /\ "present" \in world BY DEF PresentRequest, Idle
  <2>2. <<PresentFlips>> \o stack = <<PresentFlips>> BY <2>1, Alone, FrameFacts
  <2> QED BY <2>1, <2>2, FlipCalled, TypeFacts
<1>3. /\ UNCHANGED <<crtc, flip_active, shadow, waits, front, client, shown, flying, queue, world>>
      /\ UNCHANGED <<dirty, has_flip, damage, image, shadow_events, vblank>>
      /\ shadow_enabled' = FALSE
  BY DEF PresentRequest, modes, screen, kernel, clients
<1> QED BY <1>1, <1>3, TypeFacts, StackStep

\* Present copies.
LEMMA PresentCopiesStep ==
  ASSUME IInv, PresentCopies PROVE IInv'
<1>1. Stacked(queue, stack, stack') BY StackedPop, TypeFacts DEF PresentCopies, At
<1>3. /\ UNCHANGED <<crtc, flip_active, shadow, waits, front, client, shown, flying, queue, world>>
      /\ UNCHANGED <<dirty, has_flip, shadow_enabled, damage, image, shadow_events, vblank>>
  BY DEF PresentCopies, modes, screen, kernel, clients
<1> QED BY <1>1, <1>3, TypeFacts, StackStep

\* sna_mode_wakeup begins.
LEMMA WakeupStep ==
  ASSUME IInv, Wakeup PROVE IInv'
<1>1. Stacked(queue, stack, stack')
  <2>1. stack = <<>> /\ stack' = <<Read>> BY DEF Wakeup, Idle
  <2>2. <<Read>> \o stack = <<Read>> BY <2>1, Alone, FrameFacts
  <2> QED BY <2>1, <2>2, ReadCalled
<1>3. /\ UNCHANGED <<crtc, flip_active, shadow, waits, front, client, shown, flying, queue, world>>
      /\ UNCHANGED <<dirty, has_flip, shadow_enabled, damage, image, shadow_events, vblank>>
  BY DEF Wakeup, modes, screen, kernel, clients
<1> QED BY <1>1, <1>3, TypeFacts, StackStep

\* What runs last becomes, or is, flush_events.
LEMMA Flushes ==
  ASSUME IInv, stack # <<>>, Head(stack).at \in {"read", "flush"},
         Head(stack).at = "read" => Head(stack).buffer = <<>>, NEW n \in Nat \ {0}
  PROVE  Stacked(queue, stack, <<Flush(n)>> \o Tail(stack))
<1> DEFINE f == Flush(n)
<1>1. f \in Frame /\ f.at = "flush" BY FrameFacts
<1> HIDE DEF f
<1>2. Allowed(f) BY <1>1 DEF Allowed
<1>3. Fine(stack) BY TypeFacts
<1>4. Stacked(queue, stack, <<f>> \o Tail(stack)) BY <1>1, <1>2, <1>3, StackedTop
<1> QED BY <1>4 DEF f

\* All events are read.
LEMMA ReadDoneStep ==
  ASSUME IInv, ReadDone PROVE IInv'
<1>1. Stacked(queue, stack, stack')
  <2>1. /\ stack # <<>> /\ Head(stack).at = "read" /\ Head(stack).buffer = <<>>
        /\ stack' = <<Flush(1)>> \o Tail(stack)
    BY DEF ReadDone, At
  <2>2. 1 \in Nat \ {0} OBVIOUS
  <2> QED BY <2>1, <2>2, Flushes
<1>3. /\ UNCHANGED <<crtc, flip_active, shadow, waits, front, client, shown, flying, queue, world>>
      /\ UNCHANGED <<dirty, has_flip, shadow_enabled, damage, image, shadow_events, vblank>>
  BY DEF ReadDone, modes, screen, kernel, clients
<1> QED BY <1>1, <1>3, TypeFacts, StackStep

\* All deferred events are flushed.
LEMMA FlushDoneStep ==
  ASSUME IInv, FlushDone PROVE IInv'
<1>1. Stacked(queue, stack, stack') BY StackedPop, TypeFacts DEF FlushDone, At
<1>3. /\ UNCHANGED <<crtc, flip_active, shadow, waits, front, client, shown, flying, queue, world>>
      /\ UNCHANGED <<dirty, has_flip, shadow_enabled, damage, image, vblank>>
      /\ shadow_events' \in Seq(Vblanks)
  BY DEF FlushDone, modes, screen, kernel, clients
<1> QED BY <1>1, <1>3, TypeFacts, StackStep

\* Nothing was drawn.
LEMMA RedisplaySkipStep ==
  ASSUME IInv, RedisplaySkip PROVE IInv'
<1>1. Stacked(queue, stack, stack') BY StackedSame, TypeFacts DEF RedisplaySkip
<1>3. /\ UNCHANGED <<crtc, flip_active, shadow, waits, front, client, shown, flying, queue, world>>
      /\ UNCHANGED <<dirty, has_flip, shadow_enabled, image, shadow_events, vblank>>
      /\ damage' = FALSE
  BY DEF RedisplaySkip, modes, kernel, clients
<1> QED BY <1>1, <1>3, TypeFacts, StackStep

\* A handler is told of a vblank.
LEMMA TellFacts ==
  ASSUME IInv, NEW v \in Vblanks, NEW su, Stacked(queue, stack, su), Tell(v, su)
  PROVE  /\ Stacked(queue, stack, stack')
         /\ shadow_enabled' \in BOOLEAN /\ (shadow_enabled' => shadow_enabled)
         /\ vblank' \in [Vblanks -> {"new", "asked", "sent", "told", "twice", "lost"}]
<1>1. vblank' \in [Vblanks -> {"new", "asked", "sent", "told", "twice", "lost"}]
  BY TypeFacts DEF Tell, Told
<1>2. CASE stack' = su /\ UNCHANGED shadow_enabled BY <1>1, <1>2, TypeFacts
<1>3. CASE "present" \in world /\ stack' = <<PresentFlips>> \o su /\ shadow_enabled' = FALSE
  <2>1. Fine(su) BY DEF Stacked
  <2>2. Stacked(queue, su, stack') BY <1>3, <2>1, FlipCalled
  <2> QED BY <1>1, <1>3, <2>2, StackedTrans
<1> QED BY <1>2, <1>3 DEF Tell

\* The event of a vblank is handled.
LEMMA VblankTaken ==
  ASSUME IInv, NEW v \in Vblanks, Handling(VblankOf(v)) PROVE Stacked(queue, stack, Handled)
<1>1. /\ stack # <<>> /\ Head(stack).at = "read" /\ Head(stack).buffer # <<>>
      /\ Head(Head(stack).buffer) = VblankOf(v)
  BY DEF Handling, At
<1>2. \A c \in Crtcs : Head(Head(stack).buffer) # FlipOf(c) BY <1>1, EventFacts
<1>3. Stacked(queue, stack, Taken(stack)) BY <1>1, <1>2, TypeFacts, TakenFacts
<1> QED BY <1>3 DEF Handled, Taken

\* Its handler is called.
LEMMA HandleVblankStep ==
  ASSUME IInv, NEW v \in Vblanks, HandleVblank(v) PROVE IInv'
<1>1. Handling(VblankOf(v)) /\ Tell(v, Handled) BY DEF HandleVblank
<1>2. Stacked(queue, stack, Handled) BY <1>1, VblankTaken
<1> DEFINE su == Handled
<1>3. Stacked(queue, stack, su) /\ Tell(v, su) BY <1>1, <1>2
<1> HIDE DEF su
<1>4. /\ Stacked(queue, stack, stack')
      /\ shadow_enabled' \in BOOLEAN /\ (shadow_enabled' => shadow_enabled)
      /\ vblank' \in [Vblanks -> {"new", "asked", "sent", "told", "twice", "lost"}]
  BY <1>3, TellFacts
<1>5. /\ UNCHANGED <<crtc, flip_active, shadow, waits, front, client, shown, flying, queue, world>>
      /\ UNCHANGED <<dirty, has_flip, damage, image, shadow_events>>
  BY DEF HandleVblank, modes, screen, kernel
<1> QED BY <1>4, <1>5, TypeFacts, StackStep

\* It is deferred.
LEMMA DeferVblankStep ==
  ASSUME IInv, NEW v \in Vblanks, DeferVblank(v) PROVE IInv'
<1>1. Stacked(queue, stack, stack') BY VblankTaken DEF DeferVblank
<1>2. vblank' \in [Vblanks -> {"new", "asked", "sent", "told", "twice", "lost"}]
  BY TypeFacts DEF DeferVblank
<1>3. shadow_events' \in Seq(Vblanks)
  <2>1. shadow_events \in Seq(Vblanks) BY TypeFacts
  <2>2. Append(shadow_events, v) \in Seq(Vblanks) BY <2>1
  <2> QED BY <2>1, <2>2 DEF DeferVblank
<1>5. /\ UNCHANGED <<crtc, flip_active, shadow, waits, front, client, shown, flying, queue, world>>
      /\ UNCHANGED <<dirty, has_flip, shadow_enabled, damage, image>>
  BY DEF DeferVblank, modes, screen, kernel
<1> QED BY <1>1, <1>2, <1>3, <1>5, TypeFacts, StackStep

\* A deferred event is flushed.
LEMMA FlushNextStep ==
  ASSUME IInv, FlushNext PROVE IInv'
<1> DEFINE n == Head(stack).n
           v == shadow_events[n]
           su == <<Flush(n + 1)>> \o Tail(stack)
<1>1. /\ stack # <<>> /\ Head(stack).at = "flush" /\ n <= Len(shadow_events) /\ Tell(v, su)
  BY DEF FlushNext, At
<1>2. n \in Nat \ {0}
  <2>1. Head(stack) \in Frame BY <1>1, TopOf
  <2> QED BY <1>1, <2>1, FrameFacts
<1>3. v \in Vblanks
  <2>1. shadow_events \in Seq(Vblanks) BY TypeFacts
  <2>2. n \in 1..Len(shadow_events) BY <1>1, <1>2, <2>1
  <2> HIDE DEF n
  <2> QED BY <2>1, <2>2
<1>4. Stacked(queue, stack, su)
  <2>1. n + 1 \in Nat \ {0} BY <1>2
  <2>2. Head(stack).at \in {"read", "flush"} /\ Head(stack).at # "read" BY <1>1
  <2> HIDE DEF n
  <2> QED BY <1>1, <2>1, <2>2, Flushes
<1> HIDE DEF su, v
<1>5. /\ Stacked(queue, stack, stack')
      /\ shadow_enabled' \in BOOLEAN /\ (shadow_enabled' => shadow_enabled)
      /\ vblank' \in [Vblanks -> {"new", "asked", "sent", "told", "twice", "lost"}]
  BY <1>1, <1>3, <1>4, TellFacts
<1>6. /\ UNCHANGED <<crtc, flip_active, shadow, waits, front, client, shown, flying, queue, world>>
      /\ UNCHANGED <<dirty, has_flip, damage, image, shadow_events>>
  BY DEF FlushNext, modes, screen, kernel
<1> QED BY <1>5, <1>6, TypeFacts, StackStep

-----------------------------------------------------------------------------
(* The steps that change the display.                                        *)

\* The parts of the invariant.
LEMMA Assemble ==
  ASSUME world' = world, Permitted, Display' \in State,
         has_flip' \in BOOLEAN, "refuse" \notin world => has_flip',
         front' \in Bo, damage' \in BOOLEAN, image' \subseteq Bo, shadow_events' \in Seq(Vblanks),
         client' \in {"idle", "trying", "flying"},
         vblank' \in [Vblanks -> {"new", "asked", "sent", "told", "twice", "lost"}],
         Good(Display', stack'), Fine(stack'), Screened', DrawnHidden', FlipOwned',
         client' = "trying" => Tries(flying', stack')
  PROVE  IInv'
<1>1. Types' BY DEF Types
<1>2. Permitted'
  <2>1. Fine(stack)' BY DEF Fine, Allowed, Under
  <2> QED BY <2>1 DEF Permitted
<1>3. Trying'
  <2>1. Tries(flying', stack') <=> Tries(flying, stack)' BY DEF Tries, TriesAt, Under, Slot, FlipOf
  <2> QED BY <2>1 DEF Trying
<1>4. Good(Display, stack)'
  <2>1. Good(Display', stack') <=> Good(Display, stack)'
    BY DEF Good, Counted, Flipping, Sound, Resting, Waiting, Made, Once, Some, Slot, Under, FlipOf
  <2> QED BY <2>1
<1> QED BY <1>1, <1>2, <1>3, <1>4 DEF IInv

\* What is read is in the buffer of what runs last.
LEMMA ReadStack ==
  ASSUME NEW st, Fine(st), NEW q \in Seq(Event), st # <<>>, Head(st).at = "read", Head(st).buffer = <<>>
  PROVE  LET su == <<[Head(st) EXCEPT !.buffer = q]>> \o Tail(st) IN
         Fine(su) /\ \A fl : Tries(fl, st) => Tries(fl, su)
<1> DEFINE f == [Head(st) EXCEPT !.buffer = q]
           su == <<f>> \o Tail(st)
           n == Len(st)
<1>0. st \in Seq(Frame) BY DEF Fine
<1>1. Head(st) \in Frame BY <1>0, PopFacts
<1>2. Head(st) = [at |-> "read", buffer |-> <<>>] BY <1>1, FrameFacts
<1>3. f = [at |-> "read", buffer |-> q] BY <1>2
<1> HIDE DEF f
<1>4. f \in Frame /\ f.at = "read" BY <1>3, FrameFacts
<1>5. /\ su \in Seq(Frame) /\ Len(su) = n /\ n \in Nat \ {0}
      /\ Under(su, n) = f /\ Under(st, n) = Head(st)
      /\ \A d \in 1..(n - 1) : Under(su, d) = Under(st, d)
  BY <1>0, <1>4, TopFacts
<1>n. n = Len(st) OBVIOUS
<1> HIDE DEF su, n
<1>6. \A d \in 1..n : d \in 1..(n - 1) \/ d = n BY <1>5
<1>7. \A d \in 1..n : Under(su, d).at = Under(st, d).at
  <2>1. ASSUME NEW d \in 1..n PROVE Under(su, d).at = Under(st, d).at
    <3>1. CASE d = n BY <1>2, <1>4, <1>5, <3>1
    <3>2. CASE d \in 1..(n - 1) BY <1>5, <3>2
    <3> QED BY <1>6, <3>1, <3>2
  <2> QED BY <2>1
<1>8. Fine(su)
  <2>1. \A d \in 1..Len(su) : Allowed(Under(su, d)) BY <1>5, <1>7, <1>n DEF Fine, Allowed
  <2> QED BY <1>5, <2>1 DEF Fine
<1>9. ASSUME NEW fl, Tries(fl, st) PROVE Tries(fl, su)
  <2>1. PICK d \in Nat : TriesAt(fl, st, d) BY <1>9 DEF Tries
  <2>2. d \in 1..n /\ Under(st, d).at = "failed" BY <1>n, <2>1 DEF TriesAt
  <2>3. d \in 1..(n - 1)
    <3>1. d # n BY <1>2, <1>5, <2>2
    <3> QED BY <1>6, <2>2, <3>1
  <2>4. d \in 1..Len(su) /\ Under(su, d).at = "failed" BY <1>5, <1>7, <2>2
  <2>5. ASSUME NEW e \in 1..Len(su), e > d PROVE Under(su, e).at # "failed"
    BY <1>5, <1>7, <1>n, <2>1, <2>5 DEF TriesAt
  <2>6. ASSUME NEW c \in Crtcs, NEW e \in 1..d, NEW k \in Nat PROVE ~ Slot(<<>>, su, e, k, c)
    <3>1. e \in Nat \ {0} /\ e \in 1..(n - 1) /\ e \in 1..n BY <1>5, <2>3
    <3>2. ~ Slot(<<>>, st, e, k, c) BY <2>1 DEF TriesAt
    <3>3. Under(su, e) = Under(st, e) BY <1>5, <3>1
    <3> QED BY <1>5, <1>n, <3>1, <3>2, <3>3 DEF Slot
  <2>7. TriesAt(fl, su, d) BY <2>1, <2>4, <2>5, <2>6 DEF TriesAt
  <2> QED BY <2>7 DEF Tries
<1> QED BY <1>8, <1>9 DEF su, f

\* Events are read.
LEMMA ReadEventsStep ==
  ASSUME IInv, ReadEvents PROVE IInv'
<1> DEFINE su == <<[Head(stack) EXCEPT !.buffer = queue]>> \o Tail(stack)
           s == Display
           t == Display'
<1>1. /\ Types /\ Good(Display, stack) /\ Screened /\ Permitted /\ DrawnHidden /\ FlipOwned /\ Trying
  BY DEF IInv
<1>2. /\ stack # <<>> /\ Head(stack).at = "read" /\ Head(stack).buffer = <<>>
      /\ stack' = su /\ queue' = <<>>
      /\ UNCHANGED <<crtc, flip_active, dirty, shadow, waits, front, damage, image, client, vblank>>
      /\ UNCHANGED <<shown, flying, has_flip, shadow_enabled, shadow_events, world>>
  BY DEF ReadEvents, At, modes, screen, clients
<1>3. Fine(su) /\ \A fl : Tries(fl, stack) => Tries(fl, su) BY <1>2, TypeFacts, ReadStack
<1>4. \A c : Like(queue, stack, <<>>, su, c) BY <1>2, TypeFacts, ReadSlots
<1> HIDE DEF su
<1>5. s \in State BY <1>1 DEF Types
<1>6. t.crtc = s.crtc /\ t.flip_active = s.flip_active /\ t.dirty = s.dirty /\ t.shadow = s.shadow
      /\ t.shadow_enabled = s.shadow_enabled /\ t.waits = s.waits /\ t.shown = s.shown /\ t.flying = s.flying
      /\ t.queue = <<>> /\ s.queue = queue
  BY <1>2, DisplayFacts, DisplayAfter
<1>7. t \in State
  <2>1. <<>> \in Seq(Event) OBVIOUS
  <2>2. t = [crtc |-> s.crtc, flip_active |-> s.flip_active, dirty |-> s.dirty, shadow |-> s.shadow,
             shadow_enabled |-> s.shadow_enabled, waits |-> s.waits,
             shown |-> s.shown, flying |-> s.flying, queue |-> <<>>]
    BY <1>2, DisplayFacts, DisplayAfter
  <2> HIDE DEF t, s
  <2> QED BY <1>5, <2>1, <2>2, StateFacts DEF State
<1> HIDE DEF s, t
<1>8. \A c \in Crtcs : Like(s.queue, stack, t.queue, su, c) BY <1>4, <1>6
<1>9. Good(s, stack) BY <1>1 DEF s
<1>10. Good(t, su) BY <1>6, <1>8, <1>9, GoodSame
<1>11. Screened' BY <1>1, <1>2 DEF Screened, TearFree
<1>12. DrawnHidden' BY <1>1, <1>2 DEF DrawnHidden, TearFree
<1>13. FlipOwned' BY <1>1, <1>2 DEF FlipOwned
<1>14. client' = "trying" => Tries(flying', stack') BY <1>1, <1>2, <1>3 DEF Trying
<1>15. /\ has_flip' \in BOOLEAN /\ ("refuse" \notin world => has_flip')
       /\ front' \in Bo /\ damage' \in BOOLEAN /\ image' \subseteq Bo /\ shadow_events' \in Seq(Vblanks)
       /\ client' \in {"idle", "trying", "flying"}
       /\ vblank' \in [Vblanks -> {"new", "asked", "sent", "told", "twice", "lost"}]
  BY <1>1, <1>2 DEF Types, Permitted
<1> QED BY <1>1, <1>2, <1>3, <1>7, <1>10, <1>11, <1>12, <1>13, <1>14, <1>15, Assemble DEF t

\* An event is queued.
LEMMA AppendSlots ==
  ASSUME NEW q \in Seq(Event), NEW e \in Event, NEW st, NEW c
  PROVE  /\ Append(q, e) \in Seq(Event)
         /\ e # FlipOf(c) => Equal(q, st, Append(q, e), st, c)
         /\ e = FlipOf(c) /\ ~ Some(q, st, c) => Some(Append(q, e), st, c) /\ Once(Append(q, e), st, c)
<1> DEFINE p == <<e>>
           r == Append(q, e)
<1>1. p \in Seq(Event) /\ DOMAIN p = {1} /\ p[1] = e OBVIOUS
<1>2. r = q \o p BY AppendIsConcat
<1> HIDE DEF p, r
<1>3. e # FlipOf(c) => NoneOf(p, c) BY <1>1 DEF NoneOf
<1>4. e = FlipOf(c) => OneOf(p, c) BY <1>1 DEF OneOf
<1>5. /\ q \o p \in Seq(Event)
      /\ NoneOf(p, c) => Equal(q, st, q \o p, st, c)
      /\ OneOf(p, c) /\ ~ Some(q, st, c) => Some(q \o p, st, c) /\ Once(q \o p, st, c)
  BY <1>1, JoinSlots
<1> QED BY <1>2, <1>3, <1>4, <1>5 DEF r

\* The kernel tells of a vblank.
LEMMA KernelVblankStep ==
  ASSUME IInv, NEW v \in Vblanks, KernelVblank(v) PROVE IInv'
<1> DEFINE s == Display
           t == Display'
           q == Append(queue, VblankOf(v))
<1>1. /\ Types /\ Good(Display, stack) /\ Screened /\ Permitted /\ DrawnHidden /\ FlipOwned /\ Trying
  BY DEF IInv
<1>2. /\ queue' = q
      /\ UNCHANGED <<crtc, flip_active, dirty, shadow, waits, front, damage, image, client, stack>>
      /\ UNCHANGED <<shown, flying, has_flip, shadow_enabled, shadow_events, world>>
  BY DEF KernelVblank, modes, screen
<1>3. vblank' \in [Vblanks -> {"new", "asked", "sent", "told", "twice", "lost"}]
  BY TypeFacts DEF KernelVblank
<1>4. q \in Seq(Event) /\ \A c : Equal(queue, stack, q, stack, c)
  BY TypeFacts, EventFacts, AppendSlots
<1> HIDE DEF q
<1>5. s \in State BY <1>1 DEF Types
<1>6. t.crtc = s.crtc /\ t.flip_active = s.flip_active /\ t.shown = s.shown /\ t.flying = s.flying
      /\ t.queue = q /\ s.queue = queue
  BY <1>2, DisplayFacts, DisplayAfter
<1>7. t \in State
  <2>2. t = [crtc |-> s.crtc, flip_active |-> s.flip_active, dirty |-> s.dirty, shadow |-> s.shadow,
             shadow_enabled |-> s.shadow_enabled, waits |-> s.waits,
             shown |-> s.shown, flying |-> s.flying, queue |-> q]
    BY <1>2, DisplayFacts, DisplayAfter
  <2> HIDE DEF t, s
  <2> QED BY <1>4, <1>5, <2>2, StateFacts DEF State
<1> HIDE DEF s, t
<1>8. \A c \in Crtcs : Like(s.queue, stack, t.queue, stack, c) BY <1>4, <1>6, EqualLike
<1>9. Good(s, stack) BY <1>1 DEF s
<1>10. Good(t, stack) BY <1>6, <1>8, <1>9, GoodSame
<1>11. Screened' BY <1>1, <1>2 DEF Screened, TearFree
<1>12. DrawnHidden' BY <1>1, <1>2 DEF DrawnHidden, TearFree
<1>13. FlipOwned' BY <1>1, <1>2 DEF FlipOwned
<1>14. client' = "trying" => Tries(flying', stack') BY <1>1, <1>2 DEF Trying
<1>15. /\ has_flip' \in BOOLEAN /\ ("refuse" \notin world => has_flip')
       /\ front' \in Bo /\ damage' \in BOOLEAN /\ image' \subseteq Bo /\ shadow_events' \in Seq(Vblanks)
       /\ client' \in {"idle", "trying", "flying"} /\ Fine(stack')
  BY <1>1, <1>2 DEF Types, Permitted
<1> QED BY <1>1, <1>2, <1>3, <1>7, <1>10, <1>11, <1>12, <1>13, <1>14, <1>15, Assemble DEF t

\* The kernel flips.
LEMMA KernelFlipStep ==
  ASSUME IInv, NEW c \in Crtcs, KernelFlip(c) PROVE IInv'
<1> DEFINE s == Display
           t == Display'
           q == Append(queue, FlipOf(c))
           sh == [shown EXCEPT ![c] = flying[c]]
           fl == [flying EXCEPT ![c] = None]
<1>1. /\ Types /\ Good(Display, stack) /\ Screened /\ Permitted /\ DrawnHidden /\ FlipOwned /\ Trying
  BY DEF IInv
<1>2. /\ queue' = q /\ shown' = sh /\ flying' = fl /\ flying[c] # None
      /\ UNCHANGED <<crtc, flip_active, dirty, shadow, waits, front, damage, image, client, vblank, stack>>
      /\ UNCHANGED <<has_flip, shadow_enabled, shadow_events, world>>
  BY DEF KernelFlip, modes, screen, clients
<1>3. FlipOf(c) \in Event /\ \A d : d # c => FlipOf(c) # FlipOf(d) BY EventFacts
<1>4. /\ q \in Seq(Event) /\ \A d : d # c => Equal(queue, stack, q, stack, d)
      /\ ~ Some(queue, stack, c) => Some(q, stack, c) /\ Once(q, stack, c)
  BY <1>3, TypeFacts, AppendSlots
<1>5. s \in State BY <1>1 DEF Types
<1>a. /\ shown \in [Crtcs -> Bo \cup {None}] /\ flying \in [Crtcs -> Bo \cup {None}]
  BY <1>5, StateFacts, DisplayFacts
<1>b. /\ sh \in [Crtcs -> Bo \cup {None}] /\ fl \in [Crtcs -> Bo \cup {None}]
      /\ sh[c] = flying[c] /\ fl[c] = None
      /\ \A d \in Crtcs : d # c => sh[d] = shown[d] /\ fl[d] = flying[d]
  BY <1>a
<1> HIDE DEF q, sh, fl
<1>6. t.crtc = s.crtc /\ t.flip_active = s.flip_active /\ t.shown = sh /\ t.flying = fl
      /\ t.queue = q /\ s.queue = queue /\ s.shown = shown /\ s.flying = flying
  BY <1>2, DisplayFacts, DisplayAfter
<1>7. t \in State
  <2>2. t = [crtc |-> s.crtc, flip_active |-> s.flip_active, dirty |-> s.dirty, shadow |-> s.shadow,
             shadow_enabled |-> s.shadow_enabled, waits |-> s.waits,
             shown |-> sh, flying |-> fl, queue |-> q]
    BY <1>2, DisplayFacts, DisplayAfter
  <2> HIDE DEF t, s
  <2> QED BY <1>4, <1>5, <1>b, <2>2, StateFacts DEF State
<1> HIDE DEF s, t
<1>9. Good(s, stack) BY <1>1 DEF s
<1>10. Good(t, stack)
  <2>1. Counted(t) BY <1>6, <1>9 DEF Good, Counted, Flipping
  <2>2. ASSUME NEW d \in Crtcs PROVE Sound(t, stack, d)
    <3>1. Sound(s, stack, d) BY <1>9 DEF Good
    <3>2. CASE d # c
      <4>1. Equal(s.queue, stack, t.queue, stack, d) BY <1>4, <1>6, <3>2
      <4>2. Like(s.queue, stack, t.queue, stack, d) BY <4>1, EqualLike
      <4>3. t.shown[d] = s.shown[d] /\ t.flying[d] = s.flying[d] BY <1>6, <1>b, <3>2
      <4> QED BY <1>6, <3>1, <4>2, <4>3 DEF Sound, Like, Resting, Waiting, Made
    <3>3. CASE d = c
      <4>1. s.crtc[c].flip_bo # None /\ Waiting(s, stack, c)
        BY <1>2, <1>6, <3>1, <3>3 DEF Sound, Resting, Made
      <4>2. Some(t.queue, stack, c) /\ Once(t.queue, stack, c) BY <1>4, <1>6, <4>1 DEF Waiting
      <4>3. Made(t, stack, c) BY <1>6, <1>b, <4>1, <4>2 DEF Waiting, Made
      <4> QED BY <1>6, <3>3, <4>1, <4>2, <4>3 DEF Sound
    <3> QED BY <3>2, <3>3
  <2> QED BY <2>1, <2>2 DEF Good
<1>11. Screened' BY <1>1, <1>2 DEF Screened, TearFree
<1>12. DrawnHidden'
  <2>1. SUFFICES ASSUME TearFree, world \cap {"present", "refuse"} = {}, shadow_enabled, ~ waits, NEW d \in Crtcs
                 PROVE  front \notin {sh[d], fl[d]}
    BY <1>2 DEF DrawnHidden, TearFree
  <2>2. \A e \in Crtcs : front \notin {shown[e], flying[e]} BY <1>1, <2>1 DEF DrawnHidden
  <2>3. front # None BY <1>1, CrtcsAssumption DEF Types
  <2>4. CASE d = c BY <1>b, <2>2, <2>3, <2>4
  <2>5. CASE d # c BY <1>b, <2>2, <2>5
  <2> QED BY <2>4, <2>5
<1>13. FlipOwned' BY <1>1, <1>2 DEF FlipOwned
<1>14. client' = "trying" => Tries(flying', stack')
  <2>1. ~ Tries(flying, stack) BY <1>2 DEF Tries, TriesAt
  <2> QED BY <1>1, <1>2, <2>1 DEF Trying
<1>15. /\ has_flip' \in BOOLEAN /\ ("refuse" \notin world => has_flip')
       /\ front' \in Bo /\ damage' \in BOOLEAN /\ image' \subseteq Bo /\ shadow_events' \in Seq(Vblanks)
       /\ client' \in {"idle", "trying", "flying"} /\ Fine(stack')
       /\ vblank' \in [Vblanks -> {"new", "asked", "sent", "told", "twice", "lost"}]
  BY <1>1, <1>2 DEF Types, Permitted
<1> QED BY <1>1, <1>2, <1>7, <1>10, <1>11, <1>12, <1>13, <1>14, <1>15, Assemble DEF t

\* The completion of a flip is handled.
LEMMA HandleFlipStep ==
  ASSUME IInv, NEW c \in Crtcs, HandleFlip(c) PROVE IInv'
<1> DEFINE s == Display
           t == Display'
           su == Taken(stack)
           x == crtc[c]
           y == Completed(x)
           cr == [crtc EXCEPT ![c] = y]
<1>1. /\ Types /\ Good(Display, stack) /\ Screened /\ Permitted /\ DrawnHidden /\ FlipOwned /\ Trying
  BY DEF IInv
<1>2. /\ stack # <<>> /\ Head(stack).at = "read" /\ Head(stack).buffer # <<>>
      /\ Head(Head(stack).buffer) = FlipOf(c)
      /\ crtc' = cr /\ flip_active' = flip_active - 1 /\ stack' = su
      /\ UNCHANGED <<dirty, shadow, waits, front, damage, image, vblank>>
      /\ UNCHANGED <<shown, flying, queue, has_flip, shadow_enabled, shadow_events, world>>
  BY DEF HandleFlip, Handling, At, Handled, Taken, screen, kernel
<1>3. client' = IF flip_active = 1 /\ x.handler = "client" /\ client = "flying" THEN "idle" ELSE client
  BY DEF HandleFlip
<1>4. Fine(su) /\ \A fl : Tries(fl, stack) => Tries(fl, su)
  BY <1>2, TypeFacts, TakenFacts
<1>5. /\ \A d : d # c => Like(queue, stack, queue, su, d)
      /\ Some(queue, stack, c) /\ (Once(queue, stack, c) => Once(queue, su, c) /\ ~ Some(queue, su, c))
  <2>1. \A d : d # c => FlipOf(c) # FlipOf(d) BY EventFacts
  <2> QED BY <1>2, <2>1, TypeFacts, TakeSlots
<1>6. s \in State BY <1>1 DEF Types
<1>7. crtc \in [Crtcs -> SnaCrtc] /\ x \in SnaCrtc BY <1>6, StateFacts, DisplayFacts
<1>8. y \in SnaCrtc /\ y.flip_bo = None /\ y.bo = IF x.current THEN x.flip_bo ELSE x.bo
  <2> DEFINE b == IF x.current THEN x.flip_bo ELSE x.bo
  <2>1. x = [bo |-> x.bo, flip_bo |-> x.flip_bo, current |-> x.current, handler |-> x.handler]
    BY <1>7, CrtcFacts
  <2>2. y = [x EXCEPT !.bo = b, !.flip_bo = None] BY DEF Completed
  <2>3. b \in Bo \cup {None} BY <1>7, CrtcFacts
  <2> HIDE DEF b, x, y
  <2>4. y = [bo |-> b, flip_bo |-> None, current |-> x.current, handler |-> x.handler] BY <2>1, <2>2
  <2>5. y \in SnaCrtc BY <1>7, <2>3, <2>4, CrtcFacts DEF SnaCrtc
  <2> QED BY <2>4, <2>5 DEF b
<1> HIDE DEF y
<1>9. cr \in [Crtcs -> SnaCrtc] /\ cr[c] = y /\ \A d \in Crtcs : d # c => cr[d] = crtc[d]
  BY <1>7, <1>8
<1> HIDE DEF su, x, cr
<1>10. /\ t.crtc = cr /\ t.flip_active = flip_active - 1 /\ t.shown = s.shown /\ t.flying = s.flying
       /\ t.queue = s.queue /\ s.queue = queue /\ s.crtc = crtc /\ s.flip_active = flip_active
       /\ t.shown = shown /\ t.flying = flying /\ t.queue = queue
  BY <1>2, DisplayFacts, DisplayAfter
<1>11. t = [crtc |-> cr, flip_active |-> flip_active - 1, dirty |-> s.dirty, shadow |-> s.shadow,
            shadow_enabled |-> s.shadow_enabled, waits |-> s.waits,
            shown |-> s.shown, flying |-> s.flying, queue |-> s.queue]
  BY <1>2, DisplayFacts, DisplayAfter
<1>12. Good(s, stack) BY <1>1
<1> HIDE DEF s, t
<1>13. s.crtc[c].flip_bo # None /\ Made(s, stack, c)
  <2>1. Sound(s, stack, c) BY <1>12 DEF Good
  <2> QED BY <1>5, <1>10, <2>1 DEF Sound, Resting, Waiting
<1>14. flip_active \in Nat \ {0} /\ Counted(t) /\ (flip_active = 1 => Flipping(t) = {})
  <2> DEFINE A == Flipping(s)
             B == Flipping(t)
  <2>1. c \in A BY <1>13 DEF Flipping
  <2>2. B = A \ {c} BY <1>8, <1>9, <1>10 DEF Flipping
  <2>3. IsFiniteSet(A)
    <3>1. A \in SUBSET Crtcs BY DEF Flipping
    <3> QED BY <3>1, CrtcsFinite
  <2>4. flip_active = Cardinality(A) BY <1>10, <1>12 DEF Good, Counted
  <2> HIDE DEF A, B
  <2>5. Cardinality(A) \in Nat BY <2>3, FS_CardinalityType
  <2>6. Cardinality(A) # 0 BY <2>1, <2>3, FS_EmptySet
  <2>7. IsFiniteSet(A \ {c}) /\ Cardinality(A \ {c}) = Cardinality(A) - 1 BY <2>1, <2>3, FS_RemoveElement
  <2>8. flip_active = 1 => B = {} BY <2>2, <2>4, <2>7, FS_EmptySet
  <2> QED BY <1>10, <2>2, <2>4, <2>5, <2>6, <2>7, <2>8 DEF B, Counted
<1>15. t \in State BY <1>6, <1>9, <1>11, <1>14, StateFacts DEF State
<1>16. Good(t, su)
  <2>1. ASSUME NEW d \in Crtcs PROVE Sound(t, su, d)
    <3>1. Sound(s, stack, d) BY <1>12 DEF Good
    <3>2. CASE d # c
      <4>1. Like(s.queue, stack, t.queue, su, d) BY <1>5, <1>10, <3>2
      <4>2. t.crtc[d] = s.crtc[d] BY <1>9, <1>10, <3>2
      <4> QED BY <1>10, <3>1, <4>1, <4>2 DEF Sound, Like, Resting, Waiting, Made
    <3>3. CASE d = c
      <4>1. Once(t.queue, su, c) /\ ~ Some(t.queue, su, c) BY <1>5, <1>10, <3>1, <3>3 DEF Sound
      <4>2. t.crtc[c].flip_bo = None /\ t.crtc[c].bo = IF s.crtc[c].current THEN s.crtc[c].flip_bo ELSE s.crtc[c].bo
        BY <1>8, <1>9, <1>10 DEF x
      <4>3. Resting(t, su, c) BY <1>10, <1>13, <4>1, <4>2 DEF Made, Resting
      <4> QED BY <3>3, <4>1, <4>2, <4>3 DEF Sound
    <3> QED BY <3>2, <3>3
  <2> QED BY <1>14, <2>1 DEF Good
<1>17. Screened' BY <1>1, <1>2 DEF Screened, TearFree
<1>18. DrawnHidden' BY <1>1, <1>2 DEF DrawnHidden, TearFree
<1>19. FlipOwned'
  <2>1. SUFFICES ASSUME NEW d \in Crtcs, cr[d].flip_bo # None, cr[d].handler = "client" PROVE client' # "idle"
    BY <1>2 DEF FlipOwned
  <2>2. d # c BY <1>8, <1>9, <2>1
  <2>3. client # "idle" BY <1>1, <1>9, <2>1, <2>2 DEF FlipOwned
  <2>4. flip_active # 1 BY <1>10, <1>14, <2>1 DEF Flipping
  <2> QED BY <1>3, <2>3, <2>4
<1>20. client' = "trying" => Tries(flying', stack') BY <1>1, <1>2, <1>3, <1>4 DEF Trying
<1>21. /\ has_flip' \in BOOLEAN /\ ("refuse" \notin world => has_flip')
       /\ front' \in Bo /\ damage' \in BOOLEAN /\ image' \subseteq Bo /\ shadow_events' \in Seq(Vblanks)
       /\ client' \in {"idle", "trying", "flying"}
       /\ vblank' \in [Vblanks -> {"new", "asked", "sent", "told", "twice", "lost"}]
  BY <1>1, <1>2, <1>3 DEF Types, Permitted
<1> QED BY <1>1, <1>2, <1>4, <1>15, <1>16, <1>17, <1>18, <1>19, <1>20, <1>21, Assemble DEF t

\* sna_page_flip has failed: no flip is left behind.
LEMMA PageFlipFailsStep ==
  ASSUME IInv, PageFlipFails PROVE IInv'
<1> DEFINE s == Display
           t == Display'
           su == Tail(stack)
<1>1. /\ Types /\ Good(Display, stack) /\ Screened /\ Permitted /\ DrawnHidden /\ FlipOwned /\ Trying
  BY DEF IInv
<1>2. /\ stack # <<>> /\ Head(stack).at = "failed" /\ stack' = su /\ (flip_active = 0 \/ queue = <<>>)
      /\ has_flip' = FALSE /\ dirty' = FALSE
      /\ UNCHANGED <<crtc, flip_active, shadow, waits, front, damage, image, vblank>>
      /\ UNCHANGED <<shown, flying, queue, shadow_enabled, shadow_events, world>>
  BY DEF PageFlipFails, At, screen, kernel
<1>3. client' = IF client = "trying" THEN "idle" ELSE client BY DEF PageFlipFails
<1>4. stack \in Seq(Frame) /\ Fine(stack) BY TypeFacts
<1>5. /\ su \in Seq(Frame) /\ Len(su) = Len(stack) - 1 /\ Len(stack) \in Nat \ {0}
      /\ Under(stack, Len(stack)) = Head(stack)
      /\ \A d \in 1..Len(su) : Under(su, d) = Under(stack, d)
  BY <1>2, <1>4, PopFacts
<1>6. \A c : Equal(queue, stack, queue, su, c)
  <2>1. Head(stack).at = "read" => Head(stack).buffer = <<>> BY <1>2
  <2> QED BY <1>2, <1>4, <2>1, PopSlots
<1> HIDE DEF su
<1>7. Fine(su)
  <2>1. ASSUME NEW d \in 1..Len(su) PROVE Allowed(Under(su, d))
    <3>1. d \in 1..Len(stack) BY <1>5
    <3> QED BY <1>4, <1>5, <3>1 DEF Fine
  <2> QED BY <1>5, <2>1 DEF Fine
<1>8. s \in State BY <1>1 DEF Types
<1>9. /\ t.crtc = s.crtc /\ t.flip_active = s.flip_active /\ t.shown = s.shown /\ t.flying = s.flying
      /\ t.queue = s.queue /\ s.queue = queue /\ s.crtc = crtc /\ s.flip_active = flip_active /\ s.flying = flying
  BY <1>2, DisplayFacts, DisplayAfter
<1>10. t \in State
  <2>1. t = [crtc |-> s.crtc, flip_active |-> s.flip_active, dirty |-> dirty', shadow |-> s.shadow,
             shadow_enabled |-> s.shadow_enabled, waits |-> s.waits,
             shown |-> s.shown, flying |-> s.flying, queue |-> s.queue]
    BY <1>2, DisplayFacts, DisplayAfter
  <2>2. dirty' \in BOOLEAN BY <1>2
  <2> HIDE DEF t, s
  <2> QED BY <1>8, <2>1, <2>2, StateFacts DEF State
<1>11. Good(s, stack) BY <1>1
<1> HIDE DEF s, t
<1>12. Good(t, su)
  <2>1. \A c \in Crtcs : Like(s.queue, stack, t.queue, su, c) BY <1>6, <1>9, EqualLike
  <2> QED BY <1>9, <1>11, <2>1, GoodSame
<1>13. ASSUME client = "trying", NEW c \in Crtcs, crtc[c].flip_bo # None PROVE FALSE
  <2>1. PICK d \in Nat : TriesAt(flying, stack, d) BY <1>1, <1>13 DEF Trying, Tries
  <2>2. d = Len(stack)
    <3>1. Len(stack) \in 1..Len(stack) BY <1>5
    <3>2. ~ (Len(stack) > d) BY <1>2, <1>5, <2>1, <3>1 DEF TriesAt
    <3>3. d \in 1..Len(stack) BY <2>1 DEF TriesAt
    <3> QED BY <1>5, <3>2, <3>3
  <2>3. flying[c] = None BY <2>1 DEF TriesAt
  <2>4. flip_active # 0 BY <1>9, <1>11, <1>13, NoneFlipping DEF Good
  <2>5. queue = <<>> BY <1>2, <2>4
  <2>6. ~ Some(<<>>, stack, c)
    <3>1. SUFFICES ASSUME NEW e \in Nat, NEW k \in Nat, Slot(<<>>, stack, e, k, c) PROVE FALSE BY DEF Some
    <3>2. CASE e \in 1..Len(stack) BY <2>1, <2>2, <3>1, <3>2 DEF TriesAt
    <3>3. CASE e \notin 1..Len(stack)
      <4>1. DOMAIN <<>> = {} OBVIOUS
      <4> QED BY <3>1, <3>3, <4>1 DEF Slot
    <3> QED BY <3>2, <3>3
  <2>7. Sound(s, stack, c) BY <1>11 DEF Good
  <2> QED BY <1>9, <1>13, <2>3, <2>5, <2>6, <2>7 DEF Sound, Waiting, Made
<1>14. Screened' BY <1>1, <1>2 DEF Screened, TearFree
<1>15. DrawnHidden' BY <1>1, <1>2 DEF DrawnHidden, TearFree
<1>16. FlipOwned' BY <1>1, <1>2, <1>3, <1>13 DEF FlipOwned
<1>17. client' # "trying" BY <1>3
<1>18. "refuse" \in world
  <2>1. Allowed(Head(stack)) BY <1>2, TopOf
  <2> QED BY <1>2, <2>1 DEF Allowed
<1>19. /\ has_flip' \in BOOLEAN
       /\ front' \in Bo /\ damage' \in BOOLEAN /\ image' \subseteq Bo /\ shadow_events' \in Seq(Vblanks)
       /\ client' \in {"idle", "trying", "flying"}
       /\ vblank' \in [Vblanks -> {"new", "asked", "sent", "told", "twice", "lost"}]
  BY <1>1, <1>2, <1>3 DEF Types, Permitted
<1> QED BY <1>1, <1>2, <1>7, <1>10, <1>12, <1>14, <1>15, <1>16, <1>17, <1>18, <1>19, Assemble DEF t

\* The framebuffer that is drawn to next is not shown.
LEMMA BackbufferFacts ==
  ASSUME IInv, waits, shadow_enabled
  PROVE  /\ Backbuffer \in Bo /\ Backbuffer # front
         /\ \A c \in Crtcs : Backbuffer \notin {shown[c], flying[c]}
<1> DEFINE s == Display
           b == Backbuffer
<1>1. Types /\ Good(Display, stack) /\ Screened BY DEF IInv
<1>2. s \in State BY <1>1 DEF Types
<1>3. /\ s.crtc = crtc /\ s.flip_active = flip_active /\ s.shadow = shadow /\ s.shown = shown /\ s.flying = flying
  BY DisplayFacts
<1>4. b = IF flip_active > 0 \/ Refs(shadow) > 1 THEN Created(s) ELSE shadow BY DEF Backbuffer
<1>5. flip_active \in Nat /\ shadow \in Bo \cup {None} BY <1>2, <1>3, StateFacts
<1>6. shadow \in Bo /\ shadow # front BY <1>1, <1>5 DEF Screened
<1>7. Good(s, stack) BY <1>1
<1> HIDE DEF s, b
<1>8. \A c \in Crtcs : /\ shown[c] \in {crtc[c].bo, crtc[c].flip_bo}
                       /\ flying[c] \in {None, crtc[c].flip_bo}
                       /\ crtc[c].flip_bo = None => shown[c] = crtc[c].bo /\ flying[c] = None
  BY <1>3, <1>7 DEF Good, Sound, Resting, Waiting, Made
<1>9. CASE flip_active > 0 \/ Refs(shadow) > 1
  <2>1. b = Created(s) BY <1>4, <1>9
  <2>2. b \in Bo /\ b # front /\ \A c \in Crtcs : b # crtc[c].bo /\ b # crtc[c].flip_bo
    BY <1>2, <1>3, <2>1, CreatedFacts
  <2>3. b # None BY <2>2, CrtcsAssumption
  <2> QED BY <1>8, <2>2, <2>3 DEF b
<1>10. CASE ~ (flip_active > 0 \/ Refs(shadow) > 1)
  <2>1. b = shadow /\ flip_active = 0 BY <1>4, <1>5, <1>10
  <2>2. \A c \in Crtcs : crtc[c].flip_bo = None BY <1>3, <1>7, <2>1, NoneFlipping DEF Good
  <2>3. \A c \in Crtcs : crtc[c].bo # shadow
    <3> DEFINE A == {c \in Crtcs : crtc[c].bo = shadow}
               B == {c \in Crtcs : crtc[c].flip_bo = shadow}
    <3>1. A \in SUBSET Crtcs /\ B \in SUBSET Crtcs OBVIOUS
    <3>2. Refs(shadow) = 1 + Cardinality(A) + Cardinality(B) BY DEF Refs
    <3>h. \A c \in Crtcs : crtc[c].bo = shadow => c \in A OBVIOUS
    <3> HIDE DEF A, B
    <3>3. IsFiniteSet(A) /\ IsFiniteSet(B) BY <3>1, CrtcsFinite
    <3>4. Cardinality(A) \in Nat /\ Cardinality(B) \in Nat BY <3>3, FS_CardinalityType
    <3>5. Cardinality(A) = 0 BY <1>10, <3>2, <3>4
    <3>6. A = {} BY <3>3, <3>5, FS_EmptySet
    <3> QED BY <3>h, <3>6
  <2>4. shadow # None BY <1>6, CrtcsAssumption
  <2> QED BY <1>6, <1>8, <2>1, <2>2, <2>3, <2>4 DEF b
<1> QED BY <1>9, <1>10

\* The screen is drawn to.
LEMMA DrawStep ==
  ASSUME IInv, Draw PROVE IInv'
<1> DEFINE s == Display
           t == Display'
           b == Backbuffer
<1>1. /\ Types /\ Good(Display, stack) /\ Screened /\ Permitted /\ DrawnHidden /\ FlipOwned /\ Trying
  BY DEF IInv
<1>2. /\ TearFree /\ Idle /\ front' = b /\ image' = {b} /\ shadow' = (IF b = front THEN shadow ELSE front)
      /\ waits' = FALSE /\ damage' = (shadow # None)
      /\ UNCHANGED <<crtc, flip_active, dirty, client, vblank, stack>>
      /\ UNCHANGED <<shown, flying, queue, has_flip, shadow_enabled, shadow_events, world>>
  BY DEF Draw, clients, kernel
<1>3. client # "trying" BY <1>2, IdleFacts
<1>4. s \in State BY <1>1 DEF Types
<1>5. shadow \in Bo \cup {None} /\ waits \in BOOLEAN /\ shadow_enabled \in BOOLEAN /\ front \in Bo
  BY <1>1, <1>4, StateFacts, DisplayFacts DEF Types
<1>6. ~ waits \/ ~ shadow_enabled => b = front BY DEF Backbuffer
<1>7. waits /\ shadow_enabled => /\ b \in Bo /\ b # front
                                 /\ \A c \in Crtcs : b \notin {shown[c], flying[c]}
  BY BackbufferFacts
<1> HIDE DEF b
<1>8. b \in Bo BY <1>5, <1>6, <1>7
<1>9. Screened'
  <2>1. CASE b = front BY <1>1, <1>2, <2>1 DEF Screened, TearFree
  <2>2. CASE b # front
    <3>1. shadow' = front /\ front # None BY <1>2, <1>5, <2>2, CrtcsAssumption
    <3> QED BY <1>2, <2>2, <3>1 DEF Screened, TearFree
  <2> QED BY <2>1, <2>2
<1>10. DrawnHidden'
  <2>1. SUFFICES ASSUME world \cap {"present", "refuse"} = {}, shadow_enabled, NEW c \in Crtcs
                 PROVE  b \notin {shown[c], flying[c]}
    BY <1>2 DEF DrawnHidden, TearFree
  <2>2. CASE waits BY <1>7, <2>1, <2>2
  <2>3. CASE ~ waits BY <1>1, <1>2, <1>6, <2>1, <2>3 DEF DrawnHidden
  <2> QED BY <2>2, <2>3
<1>11. /\ t.crtc = s.crtc /\ t.flip_active = s.flip_active /\ t.shown = s.shown /\ t.flying = s.flying
       /\ t.queue = s.queue
  BY <1>2, DisplayFacts, DisplayAfter
<1>12. t \in State
  <2>1. t = [crtc |-> s.crtc, flip_active |-> s.flip_active, dirty |-> s.dirty, shadow |-> shadow',
             shadow_enabled |-> s.shadow_enabled, waits |-> FALSE,
             shown |-> s.shown, flying |-> s.flying, queue |-> s.queue]
    BY <1>2, DisplayFacts, DisplayAfter
  <2>2. shadow' \in Bo \cup {None} BY <1>2, <1>5
  <2> HIDE DEF t, s
  <2> QED BY <1>4, <2>1, <2>2, StateFacts DEF State
<1>13. Good(s, stack) BY <1>1
<1> HIDE DEF s, t
<1>14. Good(t, stack) BY <1>11, <1>13, SameGood DEF SameDisplay
<1>15. FlipOwned' BY <1>1, <1>2 DEF FlipOwned
<1>16. /\ has_flip' \in BOOLEAN /\ ("refuse" \notin world => has_flip')
       /\ front' \in Bo /\ damage' \in BOOLEAN /\ image' \subseteq Bo /\ shadow_events' \in Seq(Vblanks)
       /\ client' \in {"idle", "trying", "flying"} /\ Fine(stack')
       /\ vblank' \in [Vblanks -> {"new", "asked", "sent", "told", "twice", "lost"}]
  BY <1>1, <1>2, <1>8 DEF Types, Permitted
<1> QED BY <1>1, <1>2, <1>3, <1>9, <1>10, <1>12, <1>14, <1>15, <1>16, Assemble DEF t

\* A CRTC has its mode set.
LEMMA CrtcOnStep ==
  ASSUME IInv, NEW c \in Crtcs, CrtcOn(c) PROVE IInv'
<1> DEFINE s == Display
           t == Display'
           r == SetMode(s, c)
           b == IF TearFree /\ r.shadow = None THEN Created(r) ELSE r.shadow
           u == [r EXCEPT !.shadow = b]
<1>1. /\ Types /\ Good(Display, stack) /\ Screened /\ Permitted /\ DrawnHidden /\ FlipOwned /\ Trying
  BY DEF IInv
<1>2. /\ Idle /\ Become(u)
      /\ UNCHANGED <<front, damage, image, client, vblank, stack, has_flip, shadow_events, world>>
  BY DEF CrtcOn, screen, clients
<1>3. client # "trying" BY <1>2, IdleFacts
<1>4. s \in State /\ front \in Bo BY <1>1 DEF Types
<1>5. r \in State /\ Good(r, stack) /\ SameFlips(r, s) /\ AttachedScreen(r, s) BY <1>1, <1>4, SetModeFacts
<1>6. s.shadow = shadow /\ s.shadow_enabled = shadow_enabled /\ s.crtc = crtc BY DisplayFacts
<1> HIDE DEF r
<1>7. b \in Bo \cup {None} /\ b # front
  <2>1. Created(r) \in Bo /\ Created(r) # front BY <1>5, CreatedFacts
  <2>2. r.shadow \in Bo \cup {None} BY <1>5, StateFacts
  <2>3. r.shadow # front BY <1>1, <1>5, <1>6 DEF AttachedScreen, Screened
  <2> QED BY <2>1, <2>2, <2>3
<1>8. TearFree => b # None
  <2>1. Created(r) \in Bo BY <1>5, CreatedFacts
  <2>2. Created(r) # None BY <2>1, CrtcsAssumption
  <2> QED BY <2>2
<1>9. ~ TearFree => b = r.shadow OBVIOUS
<1>u. u = [r EXCEPT !.shadow = b] OBVIOUS
<1> HIDE DEF b, u
<1>10. u = [crtc |-> r.crtc, flip_active |-> r.flip_active, dirty |-> r.dirty, shadow |-> b,
            shadow_enabled |-> r.shadow_enabled, waits |-> r.waits,
            shown |-> r.shown, flying |-> r.flying, queue |-> r.queue]
  <2>1. r = [crtc |-> r.crtc, flip_active |-> r.flip_active, dirty |-> r.dirty, shadow |-> r.shadow,
             shadow_enabled |-> r.shadow_enabled, waits |-> r.waits, shown |-> r.shown,
             flying |-> r.flying, queue |-> r.queue]
    BY <1>5, StateFacts
  <2> QED BY <1>u, <2>1
<1>11. u \in State BY <1>5, <1>7, <1>10, StateFacts DEF State
<1>12. /\ SameDisplay(u, r) /\ u.shadow = b /\ u.shadow_enabled = r.shadow_enabled /\ u.waits = r.waits
       /\ u.crtc = r.crtc
  BY <1>10 DEF SameDisplay
<1>13. t = u BY <1>2, <1>11, BecomeFacts
<1>14. Good(u, stack) BY <1>5, <1>12, SameGood
<1>15. /\ shadow' = b /\ shadow_enabled' = r.shadow_enabled /\ waits' = r.waits /\ crtc' = r.crtc
  BY <1>12, <1>13, DisplayAfter
<1> HIDE DEF s, t
<1>16. Screened'
  <2>1. shadow_enabled' => shadow' # None
    <3>1. CASE TearFree BY <1>8, <1>15, <3>1
    <3>2. CASE ~ TearFree BY <1>1, <1>5, <1>6, <1>9, <1>15, <3>2 DEF Screened, AttachedScreen
    <3> QED BY <3>1, <3>2
  <2>2. ~ TearFree => shadow' = None BY <1>1, <1>5, <1>6, <1>9, <1>15 DEF Screened, AttachedScreen
  <2> QED BY <1>2, <1>7, <1>15, <2>1, <2>2 DEF Screened, TearFree
<1>17. DrawnHidden'
  <2>1. TearFree => waits' BY <1>5, <1>15 DEF AttachedScreen
  <2> QED BY <1>2, <2>1 DEF DrawnHidden, TearFree
<1>18. FlipOwned' BY <1>1, <1>2, <1>5, <1>6, <1>15 DEF FlipOwned, SameFlips
<1>19. /\ has_flip' \in BOOLEAN /\ ("refuse" \notin world => has_flip')
       /\ front' \in Bo /\ damage' \in BOOLEAN /\ image' \subseteq Bo /\ shadow_events' \in Seq(Vblanks)
       /\ client' \in {"idle", "trying", "flying"} /\ Fine(stack')
       /\ vblank' \in [Vblanks -> {"new", "asked", "sent", "told", "twice", "lost"}]
  BY <1>1, <1>2 DEF Types, Permitted
<1> QED BY <1>1, <1>2, <1>3, <1>11, <1>13, <1>14, <1>16, <1>17, <1>18, <1>19, Assemble DEF t

\* A CRTC is switched off.
LEMMA CrtcOffStep ==
  ASSUME IInv, NEW c \in Crtcs, CrtcOff(c) PROVE IInv'
<1> DEFINE s == Display
           t == Display'
           u == Disable(s, {c})
<1>1. /\ Types /\ Good(Display, stack) /\ Screened /\ Permitted /\ DrawnHidden /\ FlipOwned /\ Trying
  BY DEF IInv
<1>2. /\ Idle /\ Become(u) /\ damage' = (damage /\ shadow' # None)
      /\ UNCHANGED <<front, image, client, vblank, stack, has_flip, shadow_events, world>>
  BY DEF CrtcOff, clients
<1>3. client # "trying" BY <1>2, IdleFacts
<1>4. s \in State /\ front \in Bo /\ damage \in BOOLEAN BY <1>1 DEF Types
<1>5. DisabledAs(u, s, {c}) /\ Good(u, stack) BY <1>1, <1>4, DisableFacts
<1>6. /\ s.shadow = shadow /\ s.shadow_enabled = shadow_enabled /\ s.crtc = crtc /\ s.waits = waits
      /\ s.shown = shown /\ s.flying = flying
  BY DisplayFacts
<1> HIDE DEF u
<1>7. u \in State BY <1>5 DEF DisabledAs
<1>8. t = u BY <1>2, <1>7, BecomeFacts
<1>9. /\ shadow' = u.shadow /\ shadow_enabled' = u.shadow_enabled /\ waits' = u.waits /\ crtc' = u.crtc
      /\ shown' = u.shown /\ flying' = u.flying
  BY <1>8, DisplayAfter
<1> HIDE DEF s, t
<1>10. (shadow' = shadow /\ shadow_enabled' = shadow_enabled /\ waits' = waits)
       \/ (shadow' = None /\ shadow_enabled' = FALSE)
  BY <1>5, <1>6, <1>9 DEF DisabledAs, SameScreen, Detached
<1>11. front # None BY <1>4, CrtcsAssumption
<1>12. Screened' BY <1>1, <1>2, <1>10, <1>11 DEF Screened, TearFree
<1>13. DrawnHidden'
  <2>1. \A d \in Crtcs : shown'[d] \in {None, shown[d]} /\ flying'[d] \in {None, flying[d]}
    BY <1>5, <1>6, <1>9 DEF DisabledAs
  <2> QED BY <1>1, <1>2, <1>10, <1>11, <2>1 DEF DrawnHidden, TearFree
<1>14. FlipOwned' BY <1>1, <1>2, <1>5, <1>6, <1>9 DEF FlipOwned, SameFlips, DisabledAs
<1>15. /\ has_flip' \in BOOLEAN /\ ("refuse" \notin world => has_flip')
       /\ front' \in Bo /\ damage' \in BOOLEAN /\ image' \subseteq Bo /\ shadow_events' \in Seq(Vblanks)
       /\ client' \in {"idle", "trying", "flying"} /\ Fine(stack')
       /\ vblank' \in [Vblanks -> {"new", "asked", "sent", "told", "twice", "lost"}]
  BY <1>1, <1>2, <1>4 DEF Types, Permitted
<1> QED BY <1>1, <1>2, <1>3, <1>5, <1>7, <1>8, <1>12, <1>13, <1>14, <1>15, Assemble DEF t

\* Present ends with no TearFree when flips are refused.
LEMMA NoTearFree ==
  ASSUME IInv, "present" \in world, "refuse" \in world PROVE ~ TearFree /\ shadow = None
<1>1. Screened /\ Permitted BY DEF IInv
<1>2. ~ TearFree BY <1>1 DEF Permitted, TearFree
<1> QED BY <1>1, <1>2 DEF Screened

\* shadow_enabled is set, or waits.
EnabledAs(t, s, y) == t = [s EXCEPT !.shadow_enabled = y]
WaitsAs(t, s, y) == t = [s EXCEPT !.waits = y]

\* shadow_enabled is set.
LEMMA EnabledFacts ==
  ASSUME NEW s \in State, NEW y \in BOOLEAN, NEW t, EnabledAs(t, s, y)
  PROVE  t \in State /\ SameDisplay(t, s) /\ t.shadow = s.shadow /\ t.shadow_enabled = y
<1>1. s = [crtc |-> s.crtc, flip_active |-> s.flip_active, dirty |-> s.dirty, shadow |-> s.shadow,
           shadow_enabled |-> s.shadow_enabled, waits |-> s.waits, shown |-> s.shown,
           flying |-> s.flying, queue |-> s.queue]
  BY StateFacts
<1>2. t = [crtc |-> s.crtc, flip_active |-> s.flip_active, dirty |-> s.dirty, shadow |-> s.shadow,
           shadow_enabled |-> y, waits |-> s.waits, shown |-> s.shown,
           flying |-> s.flying, queue |-> s.queue]
  BY <1>1 DEF EnabledAs
<1> QED BY <1>2, StateFacts DEF State, SameDisplay

\* waits is set.
LEMMA WaitsFacts ==
  ASSUME NEW s \in State, NEW y \in BOOLEAN, NEW t, WaitsAs(t, s, y)
  PROVE  /\ t \in State /\ SameDisplay(t, s) /\ t.shadow = s.shadow
         /\ t.shadow_enabled = s.shadow_enabled /\ t.waits = y
<1>1. s = [crtc |-> s.crtc, flip_active |-> s.flip_active, dirty |-> s.dirty, shadow |-> s.shadow,
           shadow_enabled |-> s.shadow_enabled, waits |-> s.waits, shown |-> s.shown,
           flying |-> s.flying, queue |-> s.queue]
  BY StateFacts
<1>2. t = [crtc |-> s.crtc, flip_active |-> s.flip_active, dirty |-> s.dirty, shadow |-> s.shadow,
           shadow_enabled |-> s.shadow_enabled, waits |-> y, shown |-> s.shown,
           flying |-> s.flying, queue |-> s.queue]
  BY <1>1 DEF WaitsAs
<1> QED BY <1>2, StateFacts DEF State, SameDisplay

\* What is true stays true when only what runs changes.
LEMMA StackedGood ==
  ASSUME NEW u, NEW st, NEW su, Good(u, st), Stacked(u.queue, st, su) PROVE Good(u, su)
<1>1. \A c \in Crtcs : Like(u.queue, st, u.queue, su, c) BY DEF Stacked
<1> QED BY <1>1, GoodSame

\* Present flips to a framebuffer.
LEMMA PixmapFacts ==
  ASSUME IInv, NEW bo \in Pixmaps PROVE bo \in Bo
<1>1. Display \in State BY DEF IInv, Types
<1>2. Created(Display) \in Bo BY <1>1, CreatedFacts
<1>3. \A c \in Crtcs : crtc[c].bo \in Bo \cup {None}
  <2>1. crtc \in [Crtcs -> SnaCrtc] BY <1>1, StateFacts, DisplayFacts
  <2> QED BY <2>1, CrtcFacts
<1> QED BY <1>2, <1>3 DEF Pixmaps

\* sna_page_flip.
LEMMA PageFlipStep ==
  ASSUME IInv, NEW bo \in Pixmaps, PageFlip(bo) PROVE IInv'
<1> DEFINE s == Display
           t == Display'
           on == On(s)
           su == Tail(stack)
<1>1. /\ Types /\ Good(Display, stack) /\ Screened /\ Permitted /\ DrawnHidden /\ FlipOwned /\ Trying
  BY DEF IInv
<1>2. /\ stack # <<>> /\ Head(stack).at = "present" /\ flip_active = 0 /\ stack' = su
      /\ client' = (IF on = {} THEN "idle" ELSE "flying")
      /\ UNCHANGED <<front, damage, image, vblank, has_flip, shadow_events, world>>
  BY DEF PageFlip, Flips, At, screen
<1>3. PICK fixup \in Refusing(on) : Become(FlipAll(s, on, fixup, bo)) BY DEF PageFlip
<1>4. on \in SUBSET Crtcs BY DEF On
<1>5. fixup \in SUBSET Crtcs BY <1>3, <1>4 DEF Refusing
<1> DEFINE u == FlipAll(s, on, fixup, bo)
<1>6. s \in State /\ bo \in Bo BY <1>1, PixmapFacts DEF Types
<1>7. /\ s.crtc = crtc /\ s.flip_active = flip_active /\ s.shadow = shadow /\ s.shadow_enabled = shadow_enabled
  BY DisplayFacts
<1>8. FlipAllAs(u, s, on, bo) /\ Good(u, stack)
  <2>1. s.flip_active = 0 /\ Good(s, stack) BY <1>1, <1>2, <1>7
  <2> HIDE DEF s, on
  <2> QED BY <1>4, <1>5, <1>6, <2>1, FlipAllFacts
<1>b. Become(u) BY <1>3
<1> HIDE DEF u, on
<1>9. u \in State /\ SameScreen(u, s) BY <1>8 DEF FlipAllAs
<1>10. t = u BY <1>9, <1>b, BecomeFacts
<1>11. shadow' = u.shadow /\ shadow_enabled' = u.shadow_enabled /\ crtc' = u.crtc BY <1>10, DisplayAfter
<1>12. Stacked(u.queue, stack, su)
  <2>1. Head(stack).at # "failed" /\ Head(stack).at # "read" BY <1>2
  <2> QED BY <1>2, <2>1, TypeFacts, StackedPop
<1>13. Good(u, su) /\ Fine(su)
  <2> HIDE DEF su
  <2> QED BY <1>8, <1>12, StackedGood DEF Stacked
<1>14. "present" \in world
  <2>1. Allowed(Head(stack)) BY <1>2, TopOf
  <2> QED BY <1>2, <2>1 DEF Allowed
<1> HIDE DEF s, t
<1>15. Screened' BY <1>1, <1>2, <1>7, <1>9, <1>11 DEF Screened, TearFree, SameScreen
<1>16. DrawnHidden' BY <1>2, <1>14 DEF DrawnHidden
<1>17. FlipOwned' BY <1>2, <1>8, <1>11 DEF FlipOwned, FlipAllAs
<1>18. /\ has_flip' \in BOOLEAN /\ ("refuse" \notin world => has_flip')
       /\ front' \in Bo /\ damage' \in BOOLEAN /\ image' \subseteq Bo /\ shadow_events' \in Seq(Vblanks)
       /\ client' \in {"idle", "trying", "flying"} /\ client' # "trying"
       /\ vblank' \in [Vblanks -> {"new", "asked", "sent", "told", "twice", "lost"}]
  BY <1>1, <1>2 DEF Types, Permitted
<1> QED BY <1>1, <1>2, <1>9, <1>10, <1>13, <1>15, <1>16, <1>17, <1>18, Assemble DEF t

\* Present shows the screen again.
LEMMA PresentUnflipStep ==
  ASSUME IInv, PresentUnflip PROVE IInv'
<1> DEFINE s == Display
           t == Display'
           on == On(s)
           r == FlipAll(s, on, {}, front)
           y == shadow # None
           u == [r EXCEPT !.shadow_enabled = y]
<1>1. /\ Types /\ Good(Display, stack) /\ Screened /\ Permitted /\ DrawnHidden /\ FlipOwned /\ Trying
  BY DEF IInv
<1>2. /\ "present" \in world /\ flip_active = 0 /\ Become(u) /\ client' = "flying"
      /\ UNCHANGED <<front, damage, image, vblank, has_flip, shadow_events, stack, world>>
  BY DEF PresentUnflip, screen
<1>4. on \in SUBSET Crtcs BY DEF On
<1>6. s \in State /\ front \in Bo BY <1>1 DEF Types
<1>7. /\ s.crtc = crtc /\ s.flip_active = flip_active /\ s.shadow = shadow /\ s.shadow_enabled = shadow_enabled
  BY DisplayFacts
<1>8. FlipAllAs(r, s, on, front) /\ Good(r, stack)
  <2>1. s.flip_active = 0 /\ Good(s, stack) BY <1>1, <1>2, <1>7
  <2>2. {} \in SUBSET Crtcs OBVIOUS
  <2> HIDE DEF s, on
  <2> QED BY <1>4, <1>6, <2>1, <2>2, FlipAllFacts
<1>y. y \in BOOLEAN /\ (y <=> shadow # None) OBVIOUS
<1> HIDE DEF r, on, y
<1>9. r \in State /\ SameScreen(r, s) BY <1>8 DEF FlipAllAs
<1>u. EnabledAs(u, r, y) BY DEF EnabledAs
<1> HIDE DEF u
<1>10. u \in State /\ SameDisplay(u, r) /\ u.shadow = r.shadow /\ u.shadow_enabled = y
  BY <1>9, <1>y, <1>u, EnabledFacts
<1>11. t = u BY <1>2, <1>10, BecomeFacts
<1>12. shadow' = shadow /\ shadow_enabled' = y
  BY <1>7, <1>9, <1>10, <1>11, DisplayAfter DEF SameScreen
<1>13. Good(u, stack) BY <1>8, <1>10, SameGood
<1> HIDE DEF s, t
<1>14. Screened' BY <1>1, <1>2, <1>12, <1>y DEF Screened, TearFree
<1>15. DrawnHidden' BY <1>2 DEF DrawnHidden
<1>16. FlipOwned' BY <1>2 DEF FlipOwned
<1>17. /\ has_flip' \in BOOLEAN /\ ("refuse" \notin world => has_flip')
       /\ front' \in Bo /\ damage' \in BOOLEAN /\ image' \subseteq Bo /\ shadow_events' \in Seq(Vblanks)
       /\ client' \in {"idle", "trying", "flying"} /\ client' # "trying" /\ Fine(stack')
       /\ vblank' \in [Vblanks -> {"new", "asked", "sent", "told", "twice", "lost"}]
  BY <1>1, <1>2 DEF Types, Permitted
<1> QED BY <1>1, <1>2, <1>10, <1>11, <1>13, <1>14, <1>15, <1>16, <1>17, Assemble DEF t

\* Present sets the modes anew.
LEMMA PresentResetsStep ==
  ASSUME IInv, PresentResets PROVE IInv'
<1> DEFINE s == Display
           t == Display'
           on == On(s)
           r == Restored(s, on)
           y == shadow # None
           u == [r EXCEPT !.shadow_enabled = y]
<1>1. /\ Types /\ Good(Display, stack) /\ Screened /\ Permitted /\ DrawnHidden /\ FlipOwned /\ Trying
  BY DEF IInv
<1>2. /\ "present" \in world /\ Idle /\ (~ has_flip \/ "refuse" \in world) /\ Become(u)
      /\ UNCHANGED <<front, damage, image, client, vblank, has_flip, shadow_events, stack, world>>
  BY DEF PresentResets, screen, clients
<1>3. client # "trying" BY <1>2, IdleFacts
<1>4. "refuse" \in world BY <1>1, <1>2 DEF Permitted
<1>5. ~ TearFree /\ shadow = None BY <1>2, <1>4, NoTearFree
<1>6. s \in State /\ front \in Bo BY <1>1 DEF Types
<1>7. /\ s.crtc = crtc /\ s.flip_active = flip_active /\ s.shadow = shadow
  BY DisplayFacts
<1>8. RestoredAs(r, s) /\ Good(r, stack)
  <2>1. Good(s, stack) BY <1>1
  <2> HIDE DEF s, on
  <2> QED BY <1>5, <1>6, <2>1, RestoredFacts
<1>y. y \in BOOLEAN /\ (y <=> shadow # None) OBVIOUS
<1> HIDE DEF r, on, y
<1>9. r \in State /\ r.shadow = None /\ SameFlips(r, s)
  BY <1>5, <1>7, <1>8 DEF RestoredAs, SameScreen, Detached
<1>u. EnabledAs(u, r, y) BY DEF EnabledAs
<1> HIDE DEF u
<1>10. u \in State /\ SameDisplay(u, r) /\ u.shadow = r.shadow /\ u.shadow_enabled = y
  BY <1>9, <1>y, <1>u, EnabledFacts
<1>11. t = u BY <1>2, <1>10, BecomeFacts
<1>12. shadow' = None /\ shadow_enabled' = y /\ crtc' = r.crtc
  BY <1>9, <1>10, <1>11, DisplayAfter DEF SameDisplay
<1>13. Good(u, stack) BY <1>8, <1>10, SameGood
<1> HIDE DEF s, t
<1>14. Screened' BY <1>1, <1>2, <1>5, <1>12, <1>y DEF Screened, TearFree
<1>15. DrawnHidden' BY <1>2 DEF DrawnHidden
<1>16. FlipOwned' BY <1>1, <1>2, <1>7, <1>9, <1>12 DEF FlipOwned, SameFlips
<1>17. /\ has_flip' \in BOOLEAN /\ ("refuse" \notin world => has_flip')
       /\ front' \in Bo /\ damage' \in BOOLEAN /\ image' \subseteq Bo /\ shadow_events' \in Seq(Vblanks)
       /\ client' \in {"idle", "trying", "flying"} /\ Fine(stack')
       /\ vblank' \in [Vblanks -> {"new", "asked", "sent", "told", "twice", "lost"}]
  BY <1>1, <1>2 DEF Types, Permitted
<1> QED BY <1>1, <1>2, <1>3, <1>10, <1>11, <1>13, <1>14, <1>15, <1>16, <1>17, Assemble DEF t

\* sna_mode_redisplay flips.
LEMMA RedisplayFlipStep ==
  ASSUME IInv, RedisplayFlip PROVE IInv'
<1> DEFINE s == Display
           t == Display'
<1>1. /\ Types /\ Good(Display, stack) /\ Screened /\ Permitted /\ DrawnHidden /\ FlipOwned /\ Trying
  BY DEF IInv
<1>2. PICK how \in [Stale -> Ways] :
        LET r == Redisplayed(Stale, how) IN Become([r EXCEPT !.waits = r.waits \/ r.flip_active > 0])
  BY DEF RedisplayFlip
<1> DEFINE r == Redisplayed(Stale, how)
           y == r.waits \/ r.flip_active > 0
           u == [r EXCEPT !.waits = y]
<1>3. /\ Become(u) /\ Idle /\ shadow_enabled /\ flip_active = 0 /\ ~ waits /\ damage' = FALSE
      /\ UNCHANGED <<front, image, client, vblank, has_flip, shadow_events, stack, world>>
  BY <1>2 DEF RedisplayFlip, Redisplays, clients
<1>4. client # "trying" BY <1>3, IdleFacts
<1>5. s \in State /\ front \in Bo BY <1>1 DEF Types
<1>6. /\ s.shadow = shadow /\ s.shadow_enabled = shadow_enabled /\ s.waits = waits /\ s.shown = shown /\ s.flying = flying
  BY DisplayFacts
<1>7. Stale \in SUBSET Crtcs BY DEF Stale, On
<1>8. RedisplayedAs(r, s, Stale, how) /\ Good(r, stack) BY <1>1, <1>3, <1>5, <1>7, RedisplayedFacts
<1> HIDE DEF r
<1>9. r \in State /\ (SameScreen(r, s) \/ Detached(r)) BY <1>8 DEF RedisplayedAs
<1>y. y \in BOOLEAN OBVIOUS
<1>z. y <=> r.waits \/ r.flip_active > 0 OBVIOUS
<1> HIDE DEF y
<1>u. WaitsAs(u, r, y) BY DEF WaitsAs
<1> HIDE DEF u
<1>10. u \in State /\ SameDisplay(u, r) /\ u.shadow = r.shadow /\ u.shadow_enabled = r.shadow_enabled /\ u.waits = y
  BY <1>9, <1>y, <1>u, WaitsFacts
<1>11. t = u BY <1>3, <1>10, BecomeFacts
<1>12. /\ shadow' = r.shadow /\ shadow_enabled' = r.shadow_enabled /\ waits' = y /\ crtc' = r.crtc
       /\ shown' = r.shown /\ flying' = r.flying
  BY <1>10, <1>11, DisplayAfter DEF SameDisplay
<1>13. Good(u, stack) BY <1>8, <1>10, SameGood
<1> HIDE DEF s, t
<1>14. front # None BY <1>5, CrtcsAssumption
<1>15. Screened' BY <1>1, <1>3, <1>6, <1>9, <1>12, <1>14 DEF Screened, TearFree, SameScreen, Detached
<1>16. DrawnHidden'
  <2>1. SUFFICES ASSUME "refuse" \notin world, TearFree, world \cap {"present", "refuse"} = {}, ~ y
                 PROVE  \A c \in Crtcs : front \notin {r.shown[c], r.flying[c]}
    BY <1>3, <1>12 DEF DrawnHidden, TearFree
  <2>2. \A c \in Stale : how[c] = "flip" BY <1>2, <2>1 DEF Ways
  <2>3. r.flip_active = 0
    <3>1. r.flip_active \in Nat BY <1>9, StateFacts
    <3> QED BY <1>z, <2>1, <3>1
  <2>4. r.shown = shown /\ r.flying = flying BY <1>6, <1>8, <2>2, <2>3 DEF RedisplayedAs
  <2> QED BY <1>1, <1>3, <2>1, <2>4 DEF DrawnHidden
<1>17. FlipOwned'
  <2>1. "shadow" # "client" OBVIOUS
  <2> QED BY <1>8, <1>12, <2>1 DEF FlipOwned, RedisplayedAs
<1>18. /\ has_flip' \in BOOLEAN /\ ("refuse" \notin world => has_flip')
       /\ front' \in Bo /\ damage' \in BOOLEAN /\ image' \subseteq Bo /\ shadow_events' \in Seq(Vblanks)
       /\ client' \in {"idle", "trying", "flying"} /\ Fine(stack')
       /\ vblank' \in [Vblanks -> {"new", "asked", "sent", "told", "twice", "lost"}]
  BY <1>1, <1>3 DEF Types, Permitted
<1> QED BY <1>1, <1>3, <1>4, <1>10, <1>11, <1>13, <1>15, <1>16, <1>17, <1>18, Assemble DEF t

\* The drawing is copied instead.
LEMMA RedisplayCopyStep ==
  ASSUME IInv, RedisplayCopy PROVE IInv'
<1> DEFINE s == Display
           t == Display'
<1>1. /\ Types /\ Good(Display, stack) /\ Screened /\ Permitted /\ DrawnHidden /\ FlipOwned /\ Trying
  BY DEF IInv
<1>2. PICK c \in Stale :
        LET before == {d \in Stale : d < c} IN Become(Redisplayed(before, [d \in before |-> "mode"]))
  BY DEF RedisplayCopy
<1> DEFINE before == {d \in Stale : d < c}
           how == [d \in before |-> "mode"]
           r == Redisplayed(before, how)
<1>3. /\ Become(r) /\ Idle /\ shadow_enabled /\ flip_active = 0 /\ damage' = FALSE /\ "refuse" \in world
      /\ image' = image \cup {shadow}
      /\ UNCHANGED <<front, client, vblank, has_flip, shadow_events, stack, world>>
  BY <1>2 DEF RedisplayCopy, Redisplays, clients
<1>4. client # "trying" BY <1>3, IdleFacts
<1>5. s \in State /\ front \in Bo BY <1>1 DEF Types
<1>6. /\ s.shadow = shadow /\ s.shadow_enabled = shadow_enabled
  BY DisplayFacts
<1>7. before \in SUBSET Crtcs BY DEF Stale, On
<1> HIDE DEF before, how
<1>8. RedisplayedAs(r, s, before, how) /\ Good(r, stack) BY <1>1, <1>3, <1>5, <1>7, RedisplayedFacts
<1> HIDE DEF r
<1>9. r \in State /\ (SameScreen(r, s) \/ Detached(r)) BY <1>8 DEF RedisplayedAs
<1>11. t = r BY <1>3, <1>9, BecomeFacts
<1>12. /\ shadow' = r.shadow /\ shadow_enabled' = r.shadow_enabled /\ crtc' = r.crtc
  BY <1>11, DisplayAfter
<1>s. shadow \in Bo
  <2>1. shadow \in Bo \cup {None} BY <1>5, <1>6, StateFacts
  <2> QED BY <1>1, <1>3, <2>1 DEF Screened
<1> HIDE DEF s, t
<1>14. front # None BY <1>5, CrtcsAssumption
<1>15. Screened' BY <1>1, <1>3, <1>6, <1>9, <1>12, <1>14 DEF Screened, TearFree, SameScreen, Detached
<1>16. DrawnHidden' BY <1>3 DEF DrawnHidden
<1>17. FlipOwned'
  <2>1. "shadow" # "client" OBVIOUS
  <2> QED BY <1>8, <1>12, <2>1 DEF FlipOwned, RedisplayedAs
<1>18. /\ has_flip' \in BOOLEAN /\ ("refuse" \notin world => has_flip')
       /\ front' \in Bo /\ damage' \in BOOLEAN /\ image' \subseteq Bo /\ shadow_events' \in Seq(Vblanks)
       /\ client' \in {"idle", "trying", "flying"} /\ Fine(stack')
       /\ vblank' \in [Vblanks -> {"new", "asked", "sent", "told", "twice", "lost"}]
  BY <1>1, <1>3, <1>s DEF Types, Permitted
<1> QED BY <1>1, <1>3, <1>4, <1>8, <1>9, <1>11, <1>15, <1>16, <1>17, <1>18, Assemble DEF t

\* The flips of a sna_page_flip that fails are to be ended.
LEMMA TryingPushed ==
  ASSUME NEW q, NEW fl, NEW st, Fine(st), "refuse" \in world,
         \A c \in Crtcs : fl[c] = None /\ \A e, k \in Nat : e # 0 => ~ Slot(q, st, e, k, c)
  PROVE  LET su == <<Failed>> \o st IN
         /\ Fine(su) /\ Tries(fl, su) /\ \A c \in Crtcs : Like(q, st, q, su, c)
<1> DEFINE su == <<Failed>> \o st
<1>0. st \in Seq(Frame) BY DEF Fine
<1>f. Failed \in Frame /\ Failed.at = "failed" BY FrameFacts
<1>1. /\ su \in Seq(Frame) /\ Len(su) = Len(st) + 1 /\ Under(su, Len(su)) = Failed
      /\ \A d \in 1..Len(st) : Under(su, d) = Under(st, d)
  BY <1>0, <1>f, PushFacts
<1>2. \A p, c : Equal(p, st, p, su, c) BY <1>0, <1>f, PushSlots
<1> HIDE DEF su
<1>3. Len(st) \in Nat BY <1>0
<1>4. \A d \in 1..Len(su) : d \in 1..Len(st) \/ d = Len(su) BY <1>1, <1>3
<1>5. Fine(su)
  <2>1. Allowed(Failed) BY <1>f DEF Allowed
  <2>2. \A d \in 1..Len(su) : Allowed(Under(su, d)) BY <1>1, <1>4, <2>1 DEF Fine
  <2> QED BY <1>1, <2>2 DEF Fine
<1>6. \A c \in Crtcs : Like(q, st, q, su, c) BY <1>2, EqualLike
<1>7. Tries(fl, su)
  <2> DEFINE d == Len(su)
  <2>1. d \in Nat /\ d \in 1..Len(su) /\ Under(su, d).at = "failed" BY <1>1, <1>3, <1>f
  <2>2. \A e \in 1..Len(su) : ~ (e > d) BY <2>1
  <2>3. ASSUME NEW c \in Crtcs, NEW e \in 1..d, NEW k \in Nat PROVE ~ Slot(<<>>, su, e, k, c)
    <3>1. e \in Nat /\ e # 0 BY <2>1
    <3>2. ~ Slot(q, st, e, k, c) BY <3>1
    <3>3. ~ Slot(q, su, e, k, c) BY <1>2, <3>1, <3>2 DEF Equal
    <3> QED BY <3>1, <3>3, ReadSlot
  <2>4. TriesAt(fl, su, d) BY <2>1, <2>2, <2>3 DEF TriesAt
  <2> QED BY <2>1, <2>4 DEF Tries
<1> QED BY <1>5, <1>6, <1>7 DEF su

\* sna_page_flip fails on a CRTC when others are flipped.
LEMMA PageFlipRestoresStep ==
  ASSUME IInv, NEW bo \in Pixmaps, NEW x \in Crtcs, NEW half \in BOOLEAN, PageFlipRestores(bo, x, half)
  PROVE  IInv'
<1> DEFINE s == Display
           t == Display'
           on == On(s)
           before == {d \in on : d < x}
           sa == Tail(stack)
           sb == <<Failed>> \o sa
           sc == <<Read>> \o sb
<1>1. /\ Types /\ Good(Display, stack) /\ Screened /\ Permitted /\ DrawnHidden /\ FlipOwned /\ Trying
  BY DEF IInv
<1>2. /\ stack # <<>> /\ Head(stack).at = "present" /\ flip_active = 0 /\ stack' = <<Read, Failed>> \o sa
      /\ "refuse" \in world /\ client' = "trying" /\ x \in on
      /\ UNCHANGED <<front, damage, image, vblank, has_flip, shadow_events, world>>
  BY DEF PageFlipRestores, Flips, At, screen
<1>3. PICK fixup \in SUBSET before, keep \in SUBSET on :
        LET r == FlipAll(s, before, fixup, bo) IN
        Become(Restored(IF half THEN Replaced(r, {x}, bo) ELSE r, keep))
  BY DEF PageFlipRestores
<1> DEFINE r == FlipAll(s, before, fixup, bo)
           u == IF half THEN Replaced(r, {x}, bo) ELSE r
           v == Restored(u, keep)
<1>4. before \in SUBSET Crtcs /\ x \notin before /\ fixup \in SUBSET Crtcs
      /\ \A d \in before : s.crtc[d].bo # None
  BY CrtcsAssumption DEF On, Crtcs
<1>5. "present" \in world
  <2>1. Allowed(Head(stack)) BY <1>2, TopOf
  <2> QED BY <1>2, <2>1 DEF Allowed
<1>6. ~ TearFree /\ shadow = None /\ ~ shadow_enabled
  <2>1. ~ TearFree /\ shadow = None BY <1>2, <1>5, NoTearFree
  <2> QED BY <1>1, <2>1 DEF Screened
<1>7. /\ s \in State /\ bo \in Bo /\ front \in Bo /\ bo # None /\ Good(s, stack)
  BY <1>1, PixmapFacts, CrtcsAssumption DEF Types
<1>8. /\ s.crtc = crtc /\ s.flip_active = flip_active /\ s.shadow = shadow /\ s.shadow_enabled = shadow_enabled
      /\ s.queue = queue
  BY DisplayFacts
<1>b. Become(v) BY <1>3
<1>v. v = Restored(u, keep) OBVIOUS
<1>w. u = (IF half THEN Replaced(r, {x}, bo) ELSE r) OBVIOUS
<1>r. r = FlipAll(s, before, fixup, bo) OBVIOUS
<1>t. t = Display' OBVIOUS
<1> HIDE DEF s, on, before, r, u, v, t
<1>9. FlipAllAs(r, s, before, bo) /\ Good(r, stack)
  <2>1. s.flip_active = 0 BY <1>2, <1>8
  <2> QED BY <1>4, <1>7, <1>r, <2>1, FlipAllFacts
<1>10. /\ r \in State /\ SameScreen(r, s) /\ r.crtc[x].flip_bo = None
       /\ \A d \in Crtcs : r.crtc[d].bo = None => r.flying[d] = None
  BY <1>4, <1>7, <1>9 DEF FlipAllAs
<1>11. /\ u \in State /\ SameScreen(u, s) /\ Good(u, stack)
       /\ \A d \in Crtcs : u.crtc[d].bo = None => u.flying[d] = None
  <2>1. CASE half
    <3>1. {x} \in SUBSET Crtcs /\ \A d \in {x} : r.crtc[d].flip_bo = None BY <1>10
    <3>2. u = Replaced(r, {x}, bo) BY <1>w, <2>1
    <3>3. ReplacedAs(u, r, {x}, bo) /\ Good(u, stack) BY <1>7, <1>9, <1>10, <3>1, <3>2, ReplacedFacts, GoodReplaced
    <3>4. u \in State /\ SameScreen(u, s) BY <1>10, <3>3 DEF ReplacedAs, SameScreen
    <3>5. \A d \in Crtcs : u.crtc[d].bo = None => u.flying[d] = None BY <1>7, <1>10, <3>3 DEF ReplacedAs
    <3> QED BY <3>3, <3>4, <3>5
  <2>2. CASE ~ half
    <3>1. u = r BY <1>w, <2>2
    <3> QED BY <1>9, <1>10, <3>1
  <2> QED BY <2>1, <2>2
<1>12. RestoredAs(v, u) /\ Good(v, stack) BY <1>6, <1>7, <1>11, <1>v, RestoredFacts
<1>13. v \in State /\ (SameScreen(v, s) \/ Detached(v)) BY <1>11, <1>12 DEF RestoredAs, SameScreen
<1>14. \A d \in Crtcs : v.flying[d] = None BY <1>11, <1>12 DEF RestoredAs, On
<1>15. t = v BY <1>13, <1>b, <1>t, BecomeFacts
<1>16. shadow' = v.shadow /\ shadow_enabled' = v.shadow_enabled /\ flying' = v.flying /\ t.queue = v.queue
  BY <1>15, <1>t, DisplayAfter
<1>17. Stacked(v.queue, stack, sa)
  <2>1. Head(stack).at # "failed" /\ Head(stack).at # "read" BY <1>2
  <2> QED BY <1>2, <2>1, TypeFacts, StackedPop
<1>18. Stacked(queue, stack, sa)
  <2>1. Head(stack).at # "failed" /\ Head(stack).at # "read" BY <1>2
  <2> QED BY <1>2, <2>1, TypeFacts, StackedPop
<1>a. sa \in Seq(Frame) /\ Fine(sa) BY <1>17 DEF Stacked, Fine
<1>c. sb = <<Failed>> \o sa /\ sc = <<Read>> \o sb OBVIOUS
<1>19. stack' = sc
  <2>1. Read \in Frame /\ Failed \in Frame BY FrameFacts
  <2>2. <<Read>> \o <<Failed>> = <<Read, Failed>> BY <2>1, Pair
  <2>3. <<Read>> \in Seq(Frame) /\ <<Failed>> \in Seq(Frame) BY <2>1
  <2> HIDE DEF sa, sb, sc
  <2>4. (<<Read>> \o <<Failed>>) \o sa = <<Read>> \o (<<Failed>> \o sa)
    BY <1>a, <2>3, ConcatAssociative
  <2> QED BY <1>2, <1>c, <2>2, <2>4
<1> HIDE DEF sa, sb, sc
<1>20. \A c \in Crtcs : \A e, k \in Nat : e # 0 => ~ Slot(v.queue, sa, e, k, c)
  <2>1. SUFFICES ASSUME NEW c \in Crtcs, NEW e \in Nat, NEW k \in Nat, e # 0 PROVE ~ Slot(v.queue, sa, e, k, c)
    OBVIOUS
  <2>2. s.crtc[c].flip_bo = None BY <1>2, <1>7, <1>8, NoneFlipping DEF Good
  <2>3. ~ Some(s.queue, stack, c) BY <1>7, <2>2 DEF Good, Sound, Resting
  <2>4. ~ Some(s.queue, sa, c) BY <1>8, <1>18, <2>3 DEF Stacked, Like
  <2>5. ~ Slot(s.queue, sa, e, k, c) BY <2>4 DEF Some
  <2> QED BY <2>1, <2>5, ReadSlot
<1>21. /\ Fine(sb) /\ Tries(v.flying, sb) /\ \A c \in Crtcs : Like(v.queue, sa, v.queue, sb, c)
  BY <1>2, <1>14, <1>20, <1>a, <1>c, TryingPushed
<1>22. Stacked(v.queue, sb, sc)
  <2>1. Read \in Frame /\ Read.at = "read" /\ Read.buffer = <<>> BY FrameFacts
  <2>2. Allowed(Read) /\ Read.at # "failed" BY <2>1 DEF Allowed
  <2> QED BY <1>21, <1>c, <2>1, <2>2, StackedPush
<1>23. Fine(sc) /\ Tries(v.flying, sc) BY <1>21, <1>22 DEF Stacked
<1>24. Good(v, sc)
  <2>1. Good(v, sa) BY <1>12, <1>17, StackedGood
  <2>2. Good(v, sb) BY <1>21, <2>1, GoodSame
  <2> QED BY <1>22, <2>2, StackedGood
<1>25. Screened' BY <1>1, <1>2, <1>6, <1>7, <1>8, <1>13, <1>16, CrtcsAssumption DEF Screened, TearFree, SameScreen, Detached
<1>26. DrawnHidden' BY <1>2, <1>5 DEF DrawnHidden
<1>27. FlipOwned' BY <1>2 DEF FlipOwned
<1>28. /\ has_flip' \in BOOLEAN /\ ("refuse" \notin world => has_flip')
       /\ front' \in Bo /\ damage' \in BOOLEAN /\ image' \subseteq Bo /\ shadow_events' \in Seq(Vblanks)
       /\ client' \in {"idle", "trying", "flying"}
       /\ vblank' \in [Vblanks -> {"new", "asked", "sent", "told", "twice", "lost"}]
  BY <1>1, <1>2 DEF Types, Permitted
<1> QED
  BY <1>1, <1>2, <1>13, <1>15, <1>16, <1>19, <1>23, <1>24, <1>25, <1>26, <1>27, <1>28, <1>t, Assemble

-----------------------------------------------------------------------------
(* The invariant is inductive.                                               *)

\* What is true at first.
LEMMA InitInv == Init => IInv
<1> SUFFICES ASSUME Init PROVE IInv OBVIOUS
<1> DEFINE s == Display
           i == [bo |-> front, flip_bo |-> None, current |-> FALSE, handler |-> "none"]
<1>1. num_real_crtc \in Nat /\ num_real_crtc # 0 /\ None \notin Bo BY CrtcsAssumption
<1>2. front \in Bo
  <2>1. IsFiniteSet({}) /\ Cardinality({}) = 0 BY FS_EmptySet
  <2>2. Cardinality({}) <= 2 * num_real_crtc + 2 BY <1>1, <2>1
  <2>3. {} \in SUBSET Bo OBVIOUS
  <2>4. {} # Bo BY <2>1, <2>2, <2>3, BoAssumption
  <2>5. \E b \in Bo : TRUE BY <2>4
  <2> QED BY <2>5 DEF Init
<1>3. shadow \in Bo \cup {None} /\ shadow # front /\ (TearFree <=> shadow # None)
  <2>1. IsFiniteSet({front}) /\ Cardinality({front}) = 1 BY FS_Singleton
  <2>2. Cardinality({front}) <= 2 * num_real_crtc + 2 BY <1>1, <2>1
  <2>3. {front} \in SUBSET Bo BY <1>2
  <2>4. {front} # Bo BY <2>1, <2>2, <2>3, BoAssumption
  <2>5. \E b \in Bo : b # front BY <1>2, <2>4
  <2>6. CASE TearFree
    <3>1. shadow = CHOOSE b \in Bo : b # front BY <2>6 DEF Init
    <3>2. shadow \in Bo /\ shadow # front BY <2>5, <3>1
    <3> QED BY <1>1, <2>6, <3>2
  <2>7. CASE ~ TearFree
    <3>1. shadow = None BY <2>7 DEF Init
    <3> QED BY <1>1, <1>2, <2>7, <3>1
  <2> QED BY <2>6, <2>7
<1>4. /\ world \in Worlds /\ world \subseteq Anything
      /\ ({"tearfree", "refuse"} \subseteq world => world \cap {"present", "modes"} = {})
      /\ image = {front} /\ flip_active = 0 /\ dirty = FALSE /\ has_flip = TRUE
      /\ shadow_enabled = TearFree /\ waits = TearFree /\ damage = FALSE
      /\ shadow_events = <<>> /\ stack = <<>> /\ client = "idle" /\ queue = <<>>
      /\ vblank = [v \in Vblanks |-> "new"]
      /\ shown = [c \in Crtcs |-> front] /\ flying = [c \in Crtcs |-> None]
      /\ crtc = [c \in Crtcs |-> i]
  BY DEF Init
<1>5. i \in SnaCrtc BY <1>2 DEF SnaCrtc
<1>6. i.bo = front /\ i.flip_bo = None OBVIOUS
<1>7. /\ crtc \in [Crtcs -> SnaCrtc] /\ shown \in [Crtcs -> Bo \cup {None}]
      /\ flying \in [Crtcs -> Bo \cup {None}]
      /\ \A c \in Crtcs : crtc[c].bo = front /\ crtc[c].flip_bo = None /\ shown[c] = front /\ flying[c] = None
  <2> HIDE DEF i
  <2> QED BY <1>2, <1>4, <1>5, <1>6
<1> HIDE DEF i
<1>8. s \in State
  <2>1. queue \in Seq(Event) BY <1>4
  <2>2. shadow_enabled \in BOOLEAN /\ waits \in BOOLEAN BY <1>4 DEF TearFree
  <2> QED BY <1>3, <1>4, <1>7, <2>1, <2>2 DEF State, Display
<1>9. Fine(stack)
  <2>1. <<>> \in Seq(Frame) /\ Len(<<>>) = 0 OBVIOUS
  <2>2. \A d \in 1..0 : FALSE OBVIOUS
  <2> QED BY <1>4, <2>1, <2>2 DEF Fine
<1>10. Good(s, stack)
  <2>1. s.crtc = crtc /\ s.flip_active = flip_active /\ s.shown = shown /\ s.flying = flying /\ s.queue = <<>>
    BY <1>4, DisplayFacts
  <2> HIDE DEF s
  <2>2. Flipping(s) = {} BY <1>7, <2>1 DEF Flipping
  <2>3. Counted(s) BY <1>4, <2>1, <2>2, FS_EmptySet DEF Counted
  <2>4. ASSUME NEW c \in Crtcs PROVE Sound(s, stack, c)
    <3>1. \A d, k \in Nat : ~ Slot(<<>>, <<>>, d, k, c)
      <4>1. Len(<<>>) = 0 /\ DOMAIN <<>> = {} OBVIOUS
      <4>2. \A d : d \notin 1..0 OBVIOUS
      <4> QED BY <4>1, <4>2 DEF Slot
    <3>2. Once(s.queue, stack, c) /\ ~ Some(s.queue, stack, c) BY <1>4, <2>1, <3>1 DEF Once, Some
    <3> QED BY <1>7, <2>1, <3>2 DEF Sound, Resting
  <2> QED BY <2>3, <2>4 DEF Good
<1>11. Types
  <2>1. shadow_events \in Seq(Vblanks) BY <1>4
  <2>2. vblank \in [Vblanks -> {"new", "asked", "sent", "told", "twice", "lost"}] BY <1>4
  <2>3. image \subseteq Bo BY <1>2, <1>4
  <2> QED BY <1>2, <1>4, <1>8, <2>1, <2>2, <2>3 DEF Types
<1>12. Screened BY <1>3, <1>4 DEF Screened
<1>13. Permitted BY <1>4, <1>9 DEF Permitted
<1>14. DrawnHidden BY <1>4 DEF DrawnHidden
<1>15. FlipOwned BY <1>7 DEF FlipOwned
<1>16. Trying BY <1>4 DEF Trying
<1> QED BY <1>10, <1>11, <1>12, <1>13, <1>14, <1>15, <1>16 DEF IInv

\* Nothing happens.
LEMMA Stuttering ==
  ASSUME IInv, UNCHANGED vars PROVE IInv'
<1>1. /\ UNCHANGED <<crtc, flip_active, shadow, waits, front, client, shown, flying, queue, world>>
      /\ UNCHANGED <<dirty, has_flip, shadow_enabled, damage, image, shadow_events, vblank, stack>>
  BY DEF vars, modes, screen, clients, kernel
<1>2. Fine(stack) BY TypeFacts
<1>3. Stacked(queue, stack, stack') BY <1>1, <1>2, StackedSame
<1>4. /\ dirty' \in BOOLEAN /\ has_flip' \in BOOLEAN /\ ("refuse" \notin world => has_flip')
      /\ shadow_enabled' \in BOOLEAN /\ (shadow_enabled' => shadow_enabled)
      /\ damage' \in BOOLEAN /\ image' \subseteq Bo /\ shadow_events' \in Seq(Vblanks)
      /\ vblank' \in [Vblanks -> {"new", "asked", "sent", "told", "twice", "lost"}]
  BY <1>1, TypeFacts
<1> QED BY <1>1, <1>3, <1>4, StackStep

\* Every step keeps what is true.
LEMMA NextInv ==
  ASSUME IInv, Next PROVE IInv'
<1>1. CASE Kernel
  <2>1. ASSUME NEW v \in Vblanks, KernelVblank(v) PROVE IInv' BY <2>1, KernelVblankStep
  <2>2. ASSUME NEW c \in Crtcs, KernelFlip(c) PROVE IInv' BY <2>2, KernelFlipStep
  <2> QED BY <1>1, <2>1, <2>2 DEF Kernel
<1>2. CASE Wakeup BY <1>2, WakeupStep
<1>3. CASE ConfigNotify BY <1>3, ConfigNotifyStep
<1>4. CASE Dispatch
  <2>1. CASE ReadEvents BY <2>1, ReadEventsStep
  <2>2. CASE ReadDone BY <2>2, ReadDoneStep
  <2>3. CASE FlushNext BY <2>3, FlushNextStep
  <2>4. CASE FlushDone BY <2>4, FlushDoneStep
  <2>5. ASSUME NEW v \in Vblanks, HandleVblank(v) PROVE IInv' BY <2>5, HandleVblankStep
  <2>6. ASSUME NEW v \in Vblanks, DeferVblank(v) PROVE IInv' BY <2>6, DeferVblankStep
  <2>7. ASSUME NEW c \in Crtcs, HandleFlip(c) PROVE IInv' BY <2>7, HandleFlipStep
  <2>8. CASE PresentPolls BY <2>8, PresentPollsStep
  <2>9. CASE PresentCopies BY <2>9, PresentCopiesStep
  <2>10. CASE RestoreAgain BY <2>10, RestoreAgainStep
  <2>11. CASE PageFlipFails BY <2>11, PageFlipFailsStep
  <2>12. CASE ConfigNotified BY <2>12, ConfigNotifiedStep
  <2>13. ASSUME NEW bo \in Pixmaps, PageFlip(bo) PROVE IInv' BY <2>13, PageFlipStep
  <2>14. ASSUME NEW bo \in Pixmaps, NEW c \in Crtcs, NEW half \in BOOLEAN, PageFlipRestores(bo, c, half)
         PROVE  IInv'
    BY <2>14, PageFlipRestoresStep
  <2>15. ASSUME NEW bo \in Pixmaps, NEW gives_up \in BOOLEAN, PageFlipRefused(bo, gives_up) PROVE IInv'
    BY <2>15, PageFlipRefusedStep
  <2> QED
    BY <1>4, <2>1, <2>2, <2>3, <2>4, <2>5, <2>6, <2>7, <2>8, <2>9, <2>10, <2>11, <2>12, <2>13, <2>14, <2>15
    DEF Dispatch
<1>5. CASE Redisplay BY <1>5, RedisplaySkipStep, RedisplayFlipStep, RedisplayCopyStep DEF Redisplay
<1>6. CASE Requests
  <2>1. ASSUME NEW v \in Vblanks, AskVblank(v) PROVE IInv' BY <2>1, AskVblankStep
  <2>2. CASE PresentRequest BY <2>2, PresentRequestStep
  <2>3. CASE PresentUnflip BY <2>3, PresentUnflipStep
  <2>4. CASE PresentResets BY <2>4, PresentResetsStep
  <2>5. CASE Draw BY <2>5, DrawStep
  <2>6. ASSUME NEW c \in Crtcs, CrtcOn(c) PROVE IInv' BY <2>6, CrtcOnStep
  <2>7. ASSUME NEW c \in Crtcs, CrtcOff(c) PROVE IInv' BY <2>7, CrtcOffStep
  <2> QED BY <1>6, <2>1, <2>2, <2>3, <2>4, <2>5, <2>6, <2>7 DEF Requests
<1> QED BY <1>1, <1>2, <1>3, <1>4, <1>5, <1>6 DEF Next

\* The invariant is inductive.
LEMMA Inductive == Spec => []IInv
<1>1. IInv /\ [Next]_vars => IInv' BY NextInv, Stuttering
<1> QED BY <1>1, InitInv, PTL DEF Spec

-----------------------------------------------------------------------------
(* What follows from it.                                                     *)

\* An event that is to come is in the queue or in what was read.
LEMMA ComingFacts ==
  ASSUME IInv, NEW c PROVE Coming(c) <=> Some(queue, stack, c)
<1>1. queue \in Seq(Event) /\ stack \in Seq(Frame) BY TypeFacts
<1>2. Len(stack) \in Nat /\ Len(queue) \in Nat /\ DOMAIN stack = 1..Len(stack) /\ DOMAIN queue = 1..Len(queue)
  BY <1>1
<1>3. \A k \in DOMAIN stack : stack[k] \in Frame BY <1>1
<1>4. FlipOf(c) \in ToSet(queue) <=> \E k \in Nat : Slot(queue, stack, 0, k, c)
  <2>1. FlipOf(c) \in ToSet(queue) <=> \E k \in DOMAIN queue : queue[k] = FlipOf(c) BY DEF ToSet
  <2>2. \A k \in DOMAIN queue : k \in Nat BY <1>2
  <2>3. 0 \notin 1..Len(stack) OBVIOUS
  <2> QED BY <2>1, <2>2, <2>3 DEF Slot
<1>5. ASSUME FlipOf(c) \in Buffered PROVE \E d, k \in Nat : Slot(queue, stack, d, k, c)
  <2>1. PICK j \in DOMAIN stack : stack[j].at = "read" /\ FlipOf(c) \in ToSet(stack[j].buffer)
    BY <1>5 DEF Buffered
  <2>2. PICK k \in DOMAIN stack[j].buffer : stack[j].buffer[k] = FlipOf(c) BY <2>1 DEF ToSet
  <2> DEFINE d == Len(stack) + 1 - j
  <2>3. d \in Nat /\ d \in 1..Len(stack) /\ Len(stack) + 1 - d = j BY <1>2
  <2>4. Under(stack, d) = stack[j] BY <2>3 DEF Under
  <2>5. stack[j].buffer \in Seq(Event) BY <1>3, <2>1, FrameFacts
  <2>6. k \in Nat BY <2>5
  <2> HIDE DEF d
  <2>7. Slot(queue, stack, d, k, c) BY <2>1, <2>2, <2>3, <2>4 DEF Slot
  <2> QED BY <2>3, <2>6, <2>7
<1>6. ASSUME NEW d \in Nat, NEW k \in Nat, d # 0, Slot(queue, stack, d, k, c) PROVE FlipOf(c) \in Buffered
  <2>1. /\ d \in 1..Len(stack) /\ Under(stack, d).at = "read"
        /\ k \in DOMAIN Under(stack, d).buffer /\ Under(stack, d).buffer[k] = FlipOf(c)
    BY <1>6 DEF Slot
  <2> DEFINE j == Len(stack) + 1 - d
  <2>2. j \in DOMAIN stack BY <1>2, <2>1
  <2>3. stack[j] = Under(stack, d) BY DEF Under
  <2> HIDE DEF j
  <2>4. FlipOf(c) \in ToSet(stack[j].buffer) BY <2>1, <2>3 DEF ToSet
  <2> QED BY <2>1, <2>2, <2>3, <2>4 DEF Buffered
<1>7. Coming(c) <=> FlipOf(c) \in ToSet(queue) \/ FlipOf(c) \in Buffered BY DEF Coming
<1> QED BY <1>4, <1>5, <1>6, <1>7 DEF Some

\* The framebuffers, CRTCs, events and active functions are what they are taken to be,
\* and no more flips are counted than there are CRTCs.
THEOREM TypeCorrect == Spec => []TypeOK
<1>1. IInv => TypeOK
  <2> SUFFICES ASSUME IInv PROVE TypeOK OBVIOUS
  <2>1. Types /\ Good(Display, stack) /\ Screened /\ Permitted BY DEF IInv
  <2>2. /\ crtc \in [Crtcs -> SnaCrtc] /\ flip_active \in Nat /\ dirty \in BOOLEAN
        /\ shadow \in Bo \cup {None} /\ shadow_enabled \in BOOLEAN /\ waits \in BOOLEAN
        /\ shown \in [Crtcs -> Bo \cup {None}] /\ flying \in [Crtcs -> Bo \cup {None}]
        /\ queue \in Seq(Event)
    BY <2>1, StateFacts, DisplayFacts DEF Types
  <2>3. flip_active \in 0..Cardinality(Crtcs)
    <3>1. flip_active = Cardinality(Flipping(Display)) BY <2>1, DisplayFacts DEF Good, Counted
    <3>2. Flipping(Display) \in SUBSET Crtcs BY DEF Flipping
    <3> HIDE DEF Flipping
    <3> QED BY <3>1, <3>2, CrtcsFinite
  <2>4. shadow \in (Bo \ {front}) \cup {None} BY <2>1, <2>2 DEF Screened
  <2>5. \A k \in DOMAIN queue : queue[k] \in Event BY <2>2
  <2>6. stack \in Seq(Frame) /\ shadow_events \in Seq(Vblanks) BY TypeFacts
  <2>7. \A k \in DOMAIN stack : stack[k] \in Frame BY <2>6
  <2>8. \A k \in DOMAIN shadow_events : shadow_events[k] \in Vblanks BY <2>6
  <2> QED BY <2>1, <2>2, <2>3, <2>4, <2>5, <2>7, <2>8 DEF TypeOK, Types, Permitted
<1> QED BY <1>1, Inductive, PTL

\* mode.flip_active is the number of CRTCs with a flip_bo, and their flips are those the
\* kernel has still to make or to tell of, whatever is refused, fails or has its mode set
\* in between and however the reading of events is nested.
THEOREM FlipsAlwaysCounted == Spec => []FlipsCounted
<1>1. IInv => FlipsCounted
  <2> SUFFICES ASSUME IInv PROVE FlipsCounted OBVIOUS
  <2>1. Types /\ Good(Display, stack) BY DEF IInv
  <2>2. crtc = Display.crtc /\ flip_active = Display.flip_active /\ flying = Display.flying
        /\ queue = Display.queue
    BY DisplayFacts
  <2>3. flip_active = Cardinality({c \in Crtcs : crtc[c].flip_bo # None})
    BY <2>1, <2>2 DEF Good, Counted, Flipping
  <2>4. ASSUME NEW c \in Crtcs PROVE crtc[c].flip_bo # None <=> flying[c] # None \/ Coming(c)
    <3>1. Sound(Display, stack, c) BY <2>1 DEF Good
    <3>2. Coming(c) <=> Some(queue, stack, c) BY ComingFacts
    <3> QED BY <2>2, <3>1, <3>2 DEF Sound, Resting, Waiting, Made
  <2> QED BY <2>3, <2>4 DEF FlipsCounted
<1> QED BY <1>1, Inductive, PTL

\* The bo of a CRTC is what the kernel shows on it, or will be when the completion of its
\* flip is handled: no late completion undoes a mode that was set since.
THEOREM CrtcsAlwaysShown == Spec => []CrtcShown
<1>1. IInv => CrtcShown
  <2> SUFFICES ASSUME IInv, NEW c \in Crtcs
               PROVE  shown[c] = IF Coming(c) /\ crtc[c].current THEN crtc[c].flip_bo ELSE crtc[c].bo
    BY DEF CrtcShown
  <2>1. Sound(Display, stack, c) BY DEF IInv, Good
  <2>2. crtc = Display.crtc /\ shown = Display.shown /\ flying = Display.flying /\ queue = Display.queue
    BY DisplayFacts
  <2>3. Coming(c) <=> Some(queue, stack, c) BY ComingFacts
  <2> QED BY <2>1, <2>2, <2>3 DEF Sound, Resting, Waiting, Made
<1> QED BY <1>1, Inductive, PTL

\* TearFree: what is drawn to is neither shown on any CRTC nor about to be, as long as
\* flips are not refused.
THEOREM DrawnAlwaysHidden == Spec => []DrawnHidden
<1>1. IInv => DrawnHidden BY DEF IInv
<1> QED BY <1>1, Inductive, PTL

\* No flip is outstanding whose request Present has given up: sna_page_flip that fails on
\* a later CRTC has ended the flips of the earlier ones, and handled their events, when
\* it returns.
THEOREM FlipsAlwaysOwned == Spec => []FlipOwned
<1>1. IInv => FlipOwned BY DEF IInv
<1> QED BY <1>1, Inductive, PTL
=============================================================================
