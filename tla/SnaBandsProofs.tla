--------------------------- MODULE SnaBandsProofs ---------------------------
(***************************************************************************)
(* The bands tile the operation for operations of every size: with the     *)
(* rounding of composite_unaligned_boxes_inplace for every number of       *)
(* cores, with that of sna_image_composite for at most ten.                *)
(***************************************************************************)
EXTENDS SnaBands, TLAPS

\* What the theorem is about: a height is a uint16_t, and sna_image_composite counts
\* at least 32 rows to a thread, on ten cores at most.
Bounds ==
  /\ \A h \in Heights : h <= 65535
  /\ Threshold >= 32
  /\ "composite" \in DOMAIN Cores => \A c \in Cores["composite"] : c <= 10

\* Division.
LEMMA DivFacts ==
  ASSUME NEW a \in Nat, NEW b \in Nat \ {0}
  PROVE  a \div b \in Nat /\ b * (a \div b) <= a /\ a < b * (a \div b) + b
BY SMTT(30)
\* A quotient is no larger than what is divided.
LEMMA DivLess ==
  ASSUME NEW a \in Nat, NEW b \in Nat \ {0} PROVE a \div b \in Nat /\ a \div b <= a
<1> DEFINE q == a \div b
<1>1. q \in Nat /\ b * q <= a BY DivFacts
<1> HIDE DEF q
<1>2. q <= b * q BY <1>1
<1>3. q <= a /\ b * q \in Nat BY <1>1, <1>2
<1> QED BY <1>1, <1>3 DEF q
\* Rounding up.
LEMMA CeilFacts ==
  ASSUME NEW a \in Nat, NEW b \in Nat \ {0}
  PROVE  CeilDiv(a, b) \in Nat /\ b * CeilDiv(a, b) >= a /\ b * CeilDiv(a, b) < a + b
<1> DEFINE d == a + b - 1
           q == d \div b
<1>1. d \in Nat OBVIOUS
<1>2. q \in Nat /\ b * q <= d /\ d < b * q + b BY <1>1, DivFacts
<1>3. CeilDiv(a, b) = q BY DEF CeilDiv
<1> HIDE DEF q
<1>4. b * q \in Int BY <1>2
<1> QED BY <1>2, <1>3, <1>4

\* sna_use_threads: no more threads than cores, nor than Threshold rows for each allow.
LEMMA UseThreads ==
  ASSUME NEW max \in Nat, NEW w \in Nat \ {0}, NEW h0 \in Nat,
         NEW num, num = sna_use_threads(max, w, h0), ~ (num <= 1)
  PROVE  num \in Nat /\ num >= 2 /\ num <= max /\ h0 >= 2 /\ Threshold * (num + 1) <= h0 * max
<1> DEFINE v == 128 \div w
           h == IF w < 128 THEN h0 \div v ELSE h0
           t == (h * max) \div Threshold
<1>1. h \in Nat /\ h <= h0
  <2>1. CASE w < 128
    <3>1. v \in Nat /\ 128 < w * v + w BY DivFacts
    <3> HIDE DEF v
    <3>2. v # 0 BY <2>1, <3>1
    <3>3. h0 \div v \in Nat /\ h0 \div v <= h0 BY <3>1, <3>2, DivLess
    <3> QED BY <2>1, <3>3
  <2>2. CASE ~ (w < 128) BY <2>2
  <2> QED BY <2>1, <2>2
<1>2. num = IF max <= 0 \/ h0 <= 1 \/ t - 1 <= 0 THEN 1 ELSE Smaller(Smaller(t - 1, max), h)
  BY DEF sna_use_threads
<1> HIDE DEF h
<1>3. h * max \in Nat BY <1>1
<1>4. t \in Nat /\ Threshold * t <= h * max BY <1>3, SizesAssumption, DivFacts
<1> HIDE DEF t
<1>5. /\ h0 >= 2 /\ num \in Int /\ num <= t - 1 /\ num <= max
  BY <1>1, <1>2, <1>4 DEF Smaller
<1>6. Threshold * (num + 1) <= Threshold * t
  <2>1. t - (num + 1) \in Nat BY <1>4, <1>5
  <2> DEFINE e == t - (num + 1)
  <2>2. t = num + 1 + e BY <1>4, <1>5
  <2> HIDE DEF e
  <2>3. Threshold * t = Threshold * (num + 1) + Threshold * e
    BY <1>5, <2>1, <2>2, SizesAssumption DEF e
  <2>4. Threshold * e >= 0 BY <2>1, SizesAssumption DEF e
  <2>5. Threshold * e \in Int /\ Threshold * (num + 1) \in Int BY <1>5, <2>1, SizesAssumption DEF e
  <2> QED BY <2>3, <2>4, <2>5
<1>7. h * max <= h0 * max
  <2>1. h0 = h + (h0 - h) /\ h0 - h \in Nat BY <1>1
  <2>2. h0 * max = h * max + (h0 - h) * max BY <1>1, <2>1
  <2>3. (h0 - h) * max \in Nat BY <2>1
  <2> QED BY <1>3, <2>2, <2>3
<1>8. Threshold * (num + 1) \in Int /\ Threshold * t \in Int /\ h0 * max \in Int
  BY <1>4, <1>5, SizesAssumption
<1> QED BY <1>3, <1>4, <1>5, <1>6, <1>7, <1>8
-----------------------------------------------------------------------------
(* The invariant.                                                            *)

\* The bands of the threads before the one that is next.
Handed(k) == {<<(j - 1) * dy, dy>> : j \in 1..(k - 1)}

Operation ==
  /\ split \in DOMAIN Cores /\ split \in {"composite", "boxes"} /\ height \in Nat /\ height <= 65535
\* The last band begins inside of the operation, and is large enough to end it.
Cut ==
  /\ dy \in Nat /\ num_threads \in Nat \ {0}
  /\ (num_threads - 1) * dy <= height /\ height <= num_threads * dy
Given ==
  /\ n \in 1..num_threads /\ y = (n - 1) * dy
  /\ IF done THEN n = num_threads /\ bands = Handed(n) \cup {<<y, height - y>>}
     ELSE bands = Handed(n)
Inv == Operation /\ Cut /\ Given /\ done \in BOOLEAN

\* As sna_image_composite rounds: when the last thread would have no row left, the one
\* before has some, for these numbers.
LEMMA CompositeRounds ==
  ASSUME NEW num \in 2..10, NEW h \in Nat, NEW d \in Nat, num * d < h + num, 32 * (num + 1) <= 10 * h
  PROVE  (num - 2) * d <= h
<1>1. num = 2 \/ num = 3 \/ num = 4 \/ num = 5 \/ num = 6 \/ num = 7 \/ num = 8 \/ num = 9 \/ num = 10
  OBVIOUS
<1>2. CASE num = 2 BY <1>2
<1>3. CASE num = 3 BY <1>3
<1>4. CASE num = 4 BY <1>4
<1>5. CASE num = 5 BY <1>5
<1>6. CASE num = 6 BY <1>6
<1>7. CASE num = 7 BY <1>7
<1>8. CASE num = 8 BY <1>8
<1>9. CASE num = 9 BY <1>9
<1>10. CASE num = 10 BY <1>10
<1> QED BY <1>1, <1>2, <1>3, <1>4, <1>5, <1>6, <1>7, <1>8, <1>9, <1>10

\* It holds when the operation is cut.
LEMMA InitInv == ASSUME Bounds PROVE Init => Inv
<1>b. /\ \A h \in Heights : h <= 65535
      /\ Threshold >= 32
      /\ "composite" \in DOMAIN Cores => \A c \in Cores["composite"] : c <= 10
  BY DEF Bounds
<1>1. SUFFICES ASSUME Init PROVE Inv OBVIOUS
<1> DEFINE num == sna_use_threads(max_threads, width, height)
<1>2. /\ split \in DOMAIN Cores /\ max_threads \in Cores[split]
      /\ width \in Widths /\ height \in Heights
      /\ n = 1 /\ y = 0 /\ bands = {} /\ done = FALSE
      /\ IF num <= 1
         THEN num_threads = 1 /\ dy = height
         ELSE dy = CeilDiv(height, num) /\ num_threads = Used(num, dy, height)
  BY <1>1 DEF Init
<1>3. /\ max_threads \in Nat /\ width \in Nat \ {0} /\ height \in Nat /\ height <= 65535
      /\ split \in {"composite", "boxes"}
  <2>1. Cores[split] \subseteq Nat /\ split \in {"composite", "boxes"} BY <1>2, SizesAssumption
  <2>2. width \in Nat \ {0} BY <1>2, SizesAssumption
  <2>3. height \in Nat /\ height <= 65535 BY <1>b, <1>2, SizesAssumption
  <2> QED BY <1>2, <2>1, <2>2, <2>3
<1>4. Operation BY <1>2, <1>3 DEF Operation
<1>5. Cut
  <2>1. CASE num <= 1 BY <1>2, <1>3, <2>1 DEF Cut
  <2>2. CASE ~ (num <= 1)
    <3>1. num \in Nat /\ num >= 2 /\ num <= max_threads /\ height >= 2
          /\ Threshold * (num + 1) <= height * max_threads
      BY <1>3, <2>2, UseThreads
    <3> HIDE DEF num
    <3>2. dy = CeilDiv(height, num) /\ num_threads = Used(num, dy, height) BY <1>2, <2>2
    <3>3. dy \in Nat /\ num * dy >= height /\ num * dy < height + num
      BY <1>3, <3>1, <3>2, CeilFacts
    <3>4. CASE split = "boxes"
      <4>1. num_threads = CeilDiv(height, dy) BY <3>2, <3>4 DEF Used
      <4>2. dy # 0 BY <1>3, <3>1, <3>3
      <4>3. /\ num_threads \in Nat /\ dy * num_threads >= height
            /\ dy * num_threads < height + dy
        BY <1>3, <3>3, <4>1, <4>2, CeilFacts
      <4>4. num_threads # 0
        <5>1. SUFFICES ASSUME num_threads = 0 PROVE FALSE OBVIOUS
        <5>2. dy * num_threads = 0 BY <3>3, <5>1
        <5>3. height <= 0 BY <4>3, <5>2
        <5> QED BY <1>3, <3>1, <5>3
      <4>5. (num_threads - 1) * dy = dy * num_threads - dy /\ num_threads * dy = dy * num_threads
        BY <3>3, <4>3
      <4>6. dy * num_threads \in Int BY <3>3, <4>3
      <4> QED BY <1>3, <3>3, <4>3, <4>4, <4>5, <4>6 DEF Cut
    <3>5. CASE split = "composite"
      <4>1. num_threads = IF (num - 1) * dy >= height THEN num - 1 ELSE num
        BY <3>2, <3>5 DEF Used
      <4>2. CASE (num - 1) * dy >= height
        <5>1. max_threads \in 0..10
          <6>1. "composite" \in DOMAIN Cores /\ max_threads \in Cores["composite"] BY <1>2, <3>5
          <6> QED BY <1>3, <1>b, <6>1
        <5>2. num \in 2..10 BY <3>1, <5>1
        <5>3. height * max_threads <= 10 * height
          <6>1. height * (10 - max_threads) \in Nat BY <1>3, <5>1
          <6>2. height * (10 - max_threads) = 10 * height - height * max_threads BY <1>3, <5>1
          <6>3. height * max_threads \in Int BY <1>3, <5>1
          <6> QED BY <1>3, <6>1, <6>2, <6>3
        <5>4. 32 * (num + 1) <= Threshold * (num + 1)
          <6>1. (Threshold - 32) * (num + 1) \in Nat BY <5>2, <1>b, SizesAssumption
          <6>2. (Threshold - 32) * (num + 1) = Threshold * (num + 1) - 32 * (num + 1)
            BY <5>2, SizesAssumption
          <6>3. Threshold * (num + 1) \in Int BY <5>2, SizesAssumption
          <6> QED BY <5>2, <6>1, <6>2, <6>3
        <5>5. Threshold * (num + 1) \in Int /\ height * max_threads \in Int
          BY <1>3, <5>2, SizesAssumption
        <5>6. 32 * (num + 1) <= 10 * height BY <1>3, <3>1, <5>2, <5>3, <5>4, <5>5
        <5>7. (num - 2) * dy <= height BY <1>3, <3>3, <5>2, <5>6, CompositeRounds
        <5>8. num_threads = num - 1 /\ num_threads \in Nat \ {0} BY <3>1, <4>1, <4>2
        <5>9. num_threads - 1 = num - 2 BY <5>2, <5>8
        <5>10. (num_threads - 1) * dy <= height BY <5>7, <5>9
        <5>11. height <= num_threads * dy BY <4>2, <5>8, <3>1, <3>3, <1>3
        <5> QED BY <3>3, <5>8, <5>10, <5>11 DEF Cut
      <4>3. CASE ~ ((num - 1) * dy >= height)
        <5>1. num_threads = num BY <4>1, <4>3
        <5>2. (num - 1) * dy \in Int BY <3>1, <3>3
        <5>3. (num - 1) * dy <= height BY <1>3, <4>3, <5>2
        <5> QED BY <3>1, <3>3, <5>1, <5>3 DEF Cut
      <4> QED BY <4>2, <4>3
    <3> QED BY <1>3, <3>4, <3>5
  <2> QED BY <2>1, <2>2
<1>6. Given
  <2>1. Handed(1) = {} BY DEF Handed
  <2>2. n \in 1..num_threads /\ (n - 1) * dy = 0 BY <1>2, <1>5 DEF Cut
  <2> QED BY <1>2, <2>1, <2>2 DEF Given
<1> QED BY <1>2, <1>4, <1>5, <1>6 DEF Inv

\* The height of the last band fits in its uint16_t.
LEMMA ShortHeight ==
  ASSUME NEW h \in Nat, NEW b \in Nat, h <= 65535, b <= h PROVE (h - b) % 65536 = h - b
OBVIOUS

\* Every band that is handed out keeps it.
LEMMA NextInv == Inv /\ [Next]_vars => Inv'
<1>1. SUFFICES ASSUME Inv, [Next]_vars PROVE Inv' OBVIOUS
<1>2. /\ dy \in Nat /\ num_threads \in Nat \ {0} /\ n \in 1..num_threads /\ y = (n - 1) * dy
      /\ height \in Nat /\ height <= 65535 /\ split \in {"composite", "boxes"}
      /\ (num_threads - 1) * dy <= height /\ height <= num_threads * dy
  BY <1>1 DEF Inv, Operation, Cut, Given
<1>3. ASSUME Dispatch PROVE Inv'
  <2>1. /\ ~done /\ n < num_threads /\ bands' = bands \cup {<<y, dy>>} /\ y' = y + dy /\ n' = n + 1
        /\ UNCHANGED <<split, height, num_threads, dy, done>>
    BY <1>3 DEF Dispatch, operation
  <2>2. Operation' /\ Cut' BY <1>1, <2>1 DEF Inv, Operation, Cut
  <2>3. bands = Handed(n) BY <1>1, <2>1 DEF Inv, Given
  <2>4. Handed(n)' = Handed(n) \cup {<<y, dy>>}
    <3>1. Handed(n)' = {<<(j - 1) * dy, dy>> : j \in 1..n} BY <1>2, <2>1 DEF Handed
    <3>2. 1..n = 1..(n - 1) \cup {n} BY <1>2
    <3>3. {<<(j - 1) * dy, dy>> : j \in 1..n}
            = {<<(j - 1) * dy, dy>> : j \in 1..(n - 1)} \cup {<<(n - 1) * dy, dy>>}
      BY <3>2
    <3>4. Handed(n) = {<<(j - 1) * dy, dy>> : j \in 1..(n - 1)} BY DEF Handed
    <3>5. y = (n - 1) * dy BY <1>2
    <3> QED BY <3>1, <3>3, <3>4, <3>5
  <2>5. n' \in 1..num_threads /\ y' = n * dy BY <1>2, <2>1
  <2>6. n' - 1 = n BY <1>2, <2>1
  <2>7. Given' BY <2>1, <2>3, <2>4, <2>5, <2>6 DEF Given
  <2> QED BY <1>1, <2>1, <2>2, <2>7 DEF Inv
<1>4. ASSUME Own PROVE Inv'
  <2>1. /\ ~done /\ n >= num_threads /\ bands' = bands \cup {<<y, Remainder % 65536>>} /\ done'
        /\ UNCHANGED <<split, height, num_threads, dy, n, y>>
    BY <1>4 DEF Own, operation
  <2>2. Operation' /\ Cut' BY <1>1, <2>1 DEF Inv, Operation, Cut
  <2>3. n = num_threads BY <1>2, <2>1
  <2>4. y \in Nat /\ y <= height /\ height <= y + dy
    <3>1. y = (num_threads - 1) * dy BY <1>2, <2>3
    <3>2. num_threads * dy = (num_threads - 1) * dy + dy BY <1>2
    <3>3. (num_threads - 1) * dy \in Nat BY <1>2
    <3> QED BY <1>2, <3>1, <3>2, <3>3
  <2>5. Remainder = height - y
    <3>1. CASE y + dy > height \/ split = "boxes" BY <3>1 DEF Remainder
    <3>2. CASE ~ (y + dy > height \/ split = "boxes")
      <4>1. y + dy = height BY <1>2, <2>4, <3>2
      <4>2. Remainder = dy BY <3>2 DEF Remainder
      <4> QED BY <1>2, <2>4, <4>1, <4>2
    <3> QED BY <3>1, <3>2
  <2>6. Remainder % 65536 = height - y
    <3>1. height \in Nat /\ height <= 65535 BY <1>2
    <3> QED BY <2>4, <2>5, <3>1, ShortHeight
  <2>7. bands = Handed(n) BY <1>1, <2>1 DEF Inv, Given
  <2>8. Handed(n)' = Handed(n) BY <2>1 DEF Handed
  <2>9. Given' BY <1>2, <2>1, <2>3, <2>6, <2>7, <2>8 DEF Given
  <2> QED BY <2>1, <2>2, <2>9 DEF Inv
<1>5. CASE UNCHANGED vars
  <2>1. UNCHANGED <<split, height, num_threads, dy, n, y, bands, done>> BY <1>5 DEF vars, operation
  <2>2. Handed(n)' = Handed(n) BY <2>1 DEF Handed
  <2>3. Operation' /\ Cut' BY <1>1, <2>1 DEF Inv, Operation, Cut
  <2>4. Given' BY <1>1, <2>1, <2>2 DEF Inv, Given
  <2> QED BY <1>1, <2>1, <2>3, <2>4 DEF Inv
<1> QED BY <1>1, <1>3, <1>4, <1>5 DEF Next

\* Bands are handed out in order, from one that begins where the last one ends.
LEMMA Invariance == ASSUME Bounds PROVE Spec => []Inv
BY InitInv, NextInv, PTL DEF Spec

-----------------------------------------------------------------------------
(* What the bands are.                                                       *)

\* The bands of equal size are apart, and reach from the top to the next one.
LEMMA HandedApart ==
  ASSUME NEW d \in Nat, NEW j \in Nat \ {0}, NEW k \in Nat \ {0}, j < k
  PROVE  (j - 1) * d + d <= (k - 1) * d
<1>1. (k - 1) * d = (j - 1) * d + d + (k - 1 - j) * d OBVIOUS
<1>2. (k - 1 - j) * d \in Nat /\ (j - 1) * d \in Nat OBVIOUS
<1> QED BY <1>1, <1>2
\* The rows of a band.
LEMMA RowsFacts ==
  ASSUME NEW a \in Nat, NEW d \in Nat, NEW r
  PROVE  r \in Rows(<<a, d>>) <=> r \in Int /\ a <= r /\ r < a + d
BY DEF Rows
\* The row r of the first bands is in one of them.
LEMMA RowOfBand ==
  ASSUME NEW d \in Nat, NEW k \in Nat \ {0}, NEW r \in Nat, r < (k - 1) * d
  PROVE  \E j \in 1..(k - 1) : (j - 1) * d <= r /\ r < (j - 1) * d + d
<1>1. d # 0 BY SMTT(10)
<1> DEFINE q == r \div d
<1>2. q \in Nat /\ d * q <= r /\ r < d * q + d BY <1>1, DivFacts
<1> HIDE DEF q
<1>3. q < k - 1
  <2>1. SUFFICES ASSUME q >= k - 1 PROVE FALSE BY <1>2
  <2>2. d * q = (k - 1) * d + (q - (k - 1)) * d BY <1>2
  <2>3. (q - (k - 1)) * d \in Nat /\ (k - 1) * d \in Nat /\ d * q \in Nat BY <1>2, <2>1
  <2> QED BY <1>2, <2>2, <2>3
<1>4. q + 1 \in 1..(k - 1) BY <1>2, <1>3
<1>5. (q + 1 - 1) * d = d * q BY <1>2
<1> WITNESS q + 1 \in 1..(k - 1)
<1> QED BY <1>2, <1>5


\* A band of those that are handed out, and the rows of all of them.
LEMMA BandFacts ==
  ASSUME Inv, NEW b \in bands
  PROVE  \/ \E j \in 1..(n - 1) : b = <<(j - 1) * dy, dy>>
         \/ done /\ b = <<y, height - y>>
BY DEF Inv, Given, Handed
\* The band that is next begins inside of the operation.
LEMMA Numbers ==
  ASSUME Inv
  PROVE  /\ dy \in Nat /\ num_threads \in Nat \ {0} /\ n \in 1..num_threads
         /\ y = (n - 1) * dy /\ y \in Nat /\ height \in Nat /\ y <= height
<1>1. /\ dy \in Nat /\ num_threads \in Nat \ {0} /\ n \in 1..num_threads
      /\ y = (n - 1) * dy /\ height \in Nat /\ (num_threads - 1) * dy <= height
  BY DEF Inv, Operation, Cut, Given
<1>2. y \in Nat BY <1>1
<1>3. y <= height
  <2>1. (num_threads - 1) * dy = (n - 1) * dy + (num_threads - n) * dy BY <1>1
  <2>2. (num_threads - n) * dy \in Nat /\ (num_threads - 1) * dy \in Nat BY <1>1
  <2> QED BY <1>1, <1>2, <2>1, <2>2
<1> QED BY <1>1, <1>2, <1>3

\* A row of a band lies before the band of the X server, or in it.
LEMMA RowOf ==
  ASSUME Inv, NEW b \in bands, NEW r \in Rows(b)
  PROVE  /\ r \in Nat /\ r < height
         /\ \/ \E j \in 1..(n - 1) : b = <<(j - 1) * dy, dy>> /\ (j - 1) * dy <= r /\ r < (j - 1) * dy + dy
                                     /\ r < y
            \/ b = <<y, height - y>> /\ y <= r
<1>1. CASE \E j \in 1..(n - 1) : b = <<(j - 1) * dy, dy>>
  <2>1. PICK j \in 1..(n - 1) : b = <<(j - 1) * dy, dy>> BY <1>1
  <2>2. j \in Nat \ {0} /\ n \in Nat \ {0} /\ j < n BY <2>1, Numbers
  <2> DEFINE a == (j - 1) * dy
  <2>3. a \in Nat /\ a + dy <= y
    <3>1. a \in Nat BY <2>2, Numbers
    <3>2. (j - 1) * dy + dy <= (n - 1) * dy BY <2>2, Numbers, HandedApart
    <3> QED BY <3>1, <3>2, Numbers
  <2> HIDE DEF a
  <2>4. r \in Rows(<<a, dy>>) BY <2>1 DEF a
  <2>5. r \in Int /\ a <= r /\ r < a + dy BY <2>3, <2>4, RowsFacts, Numbers
  <2>6. r \in Nat /\ r < y /\ r < height BY <2>3, <2>5, Numbers
  <2> QED BY <2>1, <2>5, <2>6 DEF a
<1>2. CASE b = <<y, height - y>>
  <2>1. height - y \in Nat BY Numbers
  <2> DEFINE d == height - y
  <2>2. d \in Nat /\ y + d = height BY <2>1, Numbers
  <2>3. r \in Rows(<<y, d>>) BY <1>2
  <2> HIDE DEF d
  <2>4. r \in Int /\ y <= r /\ r < y + d BY <2>2, <2>3, RowsFacts, Numbers
  <2>5. r \in Nat /\ r < height BY <2>2, <2>4, Numbers
  <2> QED BY <1>2, <2>4, <2>5
<1> QED BY <1>1, <1>2, BandFacts

\* Every row is drawn.
LEMMA Covers == ASSUME Inv PROVE BandsCover
<1>1. SUFFICES ASSUME done PROVE UNION {Rows(b) : b \in bands} = 0..(height - 1) BY DEF BandsCover
<1>2. ASSUME NEW r \in UNION {Rows(b) : b \in bands} PROVE r \in 0..(height - 1)
  <2>1. PICK b \in bands : r \in Rows(b) BY <1>2
  <2>2. r \in Nat /\ r < height BY <2>1, RowOf
  <2> QED BY <2>2, Numbers
<1>3. ASSUME NEW r \in 0..(height - 1) PROVE \E b \in bands : r \in Rows(b)
  <2>0. r \in Nat /\ r < height BY <1>3, Numbers
  <2>1. bands = Handed(n) \cup {<<y, height - y>>} BY <1>1 DEF Inv, Given
  <2>2. CASE r < y
    <3>1. n \in Nat \ {0} /\ r < (n - 1) * dy BY <2>2, Numbers
    <3>2. PICK j \in 1..(n - 1) : (j - 1) * dy <= r /\ r < (j - 1) * dy + dy
      BY <2>0, <3>1, Numbers, RowOfBand
    <3> DEFINE a == (j - 1) * dy
    <3>3. a \in Nat BY <3>2, Numbers
    <3>4. <<a, dy>> \in bands BY <2>1, <3>2 DEF Handed
    <3>5. a <= r /\ r < a + dy BY <3>2
    <3> HIDE DEF a
    <3>6. r \in Rows(<<a, dy>>) BY <2>0, <3>3, <3>5, Numbers, RowsFacts
    <3> QED BY <3>4, <3>6
  <2>3. CASE ~ (r < y)
    <3> DEFINE d == height - y
    <3>1. d \in Nat /\ y <= r /\ r < y + d BY <2>0, <2>3, Numbers
    <3>2. <<y, d>> \in bands BY <2>1
    <3> HIDE DEF d
    <3>3. r \in Rows(<<y, d>>) BY <2>0, <3>1, Numbers, RowsFacts
    <3> QED BY <3>2, <3>3
  <2> QED BY <2>2, <2>3
<1> QED BY <1>2, <1>3

\* No row is drawn twice.
LEMMA Apart == ASSUME Inv PROVE BandsDisjoint
<1>1. SUFFICES ASSUME NEW a \in bands, NEW b \in bands, NEW r \in Rows(a) \cap Rows(b) PROVE a = b
  BY DEF BandsDisjoint
<1>2. \/ \E j \in 1..(n - 1) : a = <<(j - 1) * dy, dy>> /\ (j - 1) * dy <= r /\ r < (j - 1) * dy + dy
                               /\ r < y
      \/ a = <<y, height - y>> /\ y <= r
  BY <1>1, RowOf
<1>3. \/ \E j \in 1..(n - 1) : b = <<(j - 1) * dy, dy>> /\ (j - 1) * dy <= r /\ r < (j - 1) * dy + dy
                               /\ r < y
      \/ b = <<y, height - y>> /\ y <= r
  BY <1>1, RowOf
<1>4. r \in Nat BY <1>1, RowOf
<1>5. ASSUME NEW j \in 1..(n - 1), NEW k \in 1..(n - 1), j < k,
             r < (j - 1) * dy + dy, (k - 1) * dy <= r
      PROVE  FALSE
  <2>1. j \in Nat \ {0} /\ k \in Nat \ {0} BY <1>5, Numbers
  <2>2. (j - 1) * dy + dy <= (k - 1) * dy BY <1>5, <2>1, Numbers, HandedApart
  <2>3. (j - 1) * dy \in Int /\ (k - 1) * dy \in Int BY <2>1, Numbers
  <2> QED BY <1>4, <1>5, <2>2, <2>3, Numbers
<1>6. CASE a = <<y, height - y>> /\ y <= r BY <1>3, <1>4, <1>6, Numbers
<1>7. CASE b = <<y, height - y>> /\ y <= r BY <1>2, <1>4, <1>7, Numbers
<1>8. ASSUME NEW j \in 1..(n - 1), a = <<(j - 1) * dy, dy>>, (j - 1) * dy <= r, r < (j - 1) * dy + dy,
             NEW k \in 1..(n - 1), b = <<(k - 1) * dy, dy>>, (k - 1) * dy <= r, r < (k - 1) * dy + dy
      PROVE  a = b
  <2>1. ~ (j < k) /\ ~ (k < j) BY <1>5, <1>8
  <2>2. j \in Int /\ k \in Int BY <1>8, Numbers
  <2>3. j = k BY <2>1, <2>2
  <2> QED BY <1>8, <2>3
<1> QED BY <1>2, <1>3, <1>6, <1>7, <1>8

\* The bands tile the operation, whatever its height and its width, and however many
\* cores there are for composite_unaligned_boxes_inplace: no thread draws the row
\* of another, which would blend it twice, and none is left out.  With Bounds, which the
\* rounding of sna_image_composite needs: from eleven cores on it may hand out more.
THEOREM BandsAlwaysTile == ASSUME Bounds PROVE Spec => []BandsTile
<1>1. Inv => BandsTile BY Covers, Apart DEF BandsTile
<1> QED BY <1>1, Invariance, PTL
=============================================================================
