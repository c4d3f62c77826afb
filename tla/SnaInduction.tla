---------------------------- MODULE SnaInduction -----------------------------
(***************************************************************************)
(* Induction for the proofs about SNA: over the natural numbers, stated    *)
(* with a set and not with a predicate, and the existence of the functions *)
(* that are defined by recursion on an interval.                           *)
(***************************************************************************)
EXTENDS SnaLists, TLAPS, WellFoundedInduction

\* Induction: a set of numbers that has 0, and with each number the next.
LEMMA SetInduction ==
  ASSUME NEW T, T \subseteq Nat, 0 \in T, \A n \in T : n + 1 \in T PROVE T = Nat
<1> DEFINE R == OpToRel(<, Nat)
           U == Nat \ T
<1>1. \A x, y \in Nat : <<x, y>> \in R <=> x < y BY DEF OpToRel
<1>2. IsWellFoundedOn(R, Nat) BY NatLessThanWellFounded
<1> HIDE DEF R
<1>3. ASSUME U # {} PROVE FALSE
  <2>1. U \subseteq Nat OBVIOUS
  <2> HIDE DEF U
  <2>2. PICK x \in U : \A y \in U : ~ (<<y, x>> \in R) BY <1>2, <1>3, <2>1, WFMin
  <2>3. x \in Nat /\ x \notin T BY DEF U
  <2>4. x - 1 \in Nat /\ x - 1 + 1 = x BY <2>3
  <2> DEFINE y == x - 1
  <2> HIDE DEF y
  <2>5. y \in Nat /\ y < x BY <2>3, <2>4 DEF y
  <2>6. <<y, x>> \in R BY <1>1, <2>3, <2>5
  <2>7. y \notin U BY <2>2, <2>6
  <2>8. y \in T BY <2>5, <2>7 DEF U
  <2> QED BY <2>3, <2>4, <2>8 DEF y
<1> QED BY <1>3

\* A step of a recursion on 0..N, from the value before.
Steps(h, T, N) == h \in [T \X (1..N) -> T]
Iterates(f, b, h, T, N) ==
  f \in [0..N -> T] /\ f[0] = b /\ \A n \in 1..N : f[n] = h[<<f[n - 1], n>>]

\* A function defined by recursion on 0..N.
LEMMA Recursion ==
  ASSUME NEW T, NEW b, b \in T, NEW N, N \in Nat, NEW h, Steps(h, T, N)
  PROVE  \E f : Iterates(f, b, h, T, N)
<1> DEFINE Is(f, m) == f \in [0..m -> T] /\ f[0] = b /\ \A n \in 1..m : f[n] = h[<<f[n - 1], n>>]
           M == {m \in Nat : m <= N => \E f : Is(f, m)}
<1>1. 0 \in M
  <2>1. Is([i \in 0..0 |-> b], 0) OBVIOUS
  <2> QED BY <2>1
<1>2. ASSUME NEW m \in M PROVE m + 1 \in M
  <2>1. SUFFICES ASSUME m + 1 <= N PROVE \E f : Is(f, m + 1) BY <1>2
  <2>2. PICK f : Is(f, m) BY <1>2, <2>1
  <2> DEFINE g == [i \in 0..(m + 1) |-> IF i <= m THEN f[i] ELSE h[<<f[m], m + 1>>]]
  <2>3. m \in Nat /\ m + 1 \in 1..N BY <1>2, <2>1
  <2>4. h[<<f[m], m + 1>>] \in T BY <2>2, <2>3 DEF Steps
  <2>5. g \in [0..(m + 1) -> T] BY <2>2, <2>3, <2>4
  <2>6. g[0] = b BY <2>2, <2>3
  <2>7. ASSUME NEW n \in 1..(m + 1) PROVE g[n] = h[<<g[n - 1], n>>]
    <3>1. CASE n \in 1..m
      <4>1. g[n] = f[n] /\ g[n - 1] = f[n - 1] BY <2>3, <3>1
      <4> QED BY <2>2, <3>1, <4>1
    <3>2. CASE n = m + 1
      <4>1. g[n] = h[<<f[m], n>>] /\ g[n - 1] = f[m] BY <2>3, <3>2
      <4> QED BY <4>1
    <3> QED BY <2>3, <3>1, <3>2
  <2> HIDE DEF g
  <2> QED BY <2>5, <2>6, <2>7
<1>3. N \in M BY <1>1, <1>2, SetInduction
<1> QED BY <1>3 DEF Iterates

-----------------------------------------------------------------------------
(* What the recursive function of SnaLists computes.                         *)

\* What is left of q keeps its order: f maps its positions to those in q.
Subsequence(r, q, S, f) ==
  /\ f \in [1..Len(r) -> 1..Len(q)]
  /\ \A k \in 1..Len(r) : r[k] = q[f[k]] /\ q[f[k]] \notin S
  /\ \A j, k \in 1..Len(r) : j < k => f[j] < f[k]

\* The part of a list that is left when elements are taken out.
LEMMA WithoutFacts ==
  ASSUME NEW T, NEW q \in Seq(T), NEW S
  PROVE  /\ Without(q, S) \in Seq(T)
         /\ \E f : Subsequence(Without(q, S), q, S, f)
         /\ \A k \in 1..Len(q) : q[k] \notin S => \E j \in 1..Len(Without(q, S)) : Without(q, S)[j] = q[k]
<1> DEFINE N == Len(q)
           h == [x \in Seq(T) \X (1..N) |->
                   IF q[x[2]] \in S THEN x[1] ELSE Append(x[1], q[x[2]])]
<1>1. N \in Nat /\ \A k \in 1..N : q[k] \in T OBVIOUS
<1>2. h \in [Seq(T) \X (1..N) -> Seq(T)]
  <2>1. ASSUME NEW x \in Seq(T) \X (1..N)
        PROVE  (IF q[x[2]] \in S THEN x[1] ELSE Append(x[1], q[x[2]])) \in Seq(T)
    <3>1. x[1] \in Seq(T) /\ q[x[2]] \in T BY <1>1
    <3>2. Append(x[1], q[x[2]]) \in Seq(T) BY <3>1
    <3> QED BY <3>1, <3>2
  <2> QED BY <2>1
<1>3. \A g \in Seq(T), n \in 1..N : h[<<g, n>>] = IF q[n] \in S THEN g ELSE Append(g, q[n])
  OBVIOUS
<1> HIDE DEF h
<1>4. PICK f \in [0..N -> Seq(T)] : f[0] = <<>> /\ \A n \in 1..N : f[n] = h[<<f[n - 1], n>>]
  <2> DEFINE A == Seq(T)
             b == <<>>
  <2>1. b \in A /\ Steps(h, A, N) BY <1>2 DEF Steps
  <2> HIDE DEF A, b, N
  <2>2. PICK f : Iterates(f, b, h, A, N) BY <1>1, <2>1, Recursion
  <2> QED BY <2>2 DEF A, b, Iterates
<1>5. \A n \in 1..N : f[n - 1] \in Seq(T) BY <1>1, <1>4
<1>6. \A n \in 1..N : f[n] = IF q[n] \in S THEN f[n - 1] ELSE Append(f[n - 1], q[n])
  BY <1>3, <1>4, <1>5
<1> DEFINE Def(g) == [n \in 0..Len(q) |->
             CASE n = 0 -> <<>> [] n > 0 /\ q[n] \in S -> g[n - 1]
               [] OTHER -> Append(g[n - 1], q[n])]
<1>7. f = Def(f)
  <2>1. ASSUME NEW n \in 0..N
        PROVE f[n] = CASE n = 0 -> <<>> [] n > 0 /\ q[n] \in S -> f[n - 1]
                       [] OTHER -> Append(f[n - 1], q[n])
    <3>1. CASE n = 0 BY <1>4, <3>1
    <3>2. CASE n \in 1..N BY <1>6, <3>2, SMTT(30)
    <3> QED BY <1>1, <3>1, <3>2
  <2> QED BY <1>4, <2>1
<1>8. ASSUME NEW g, g = Def(g) PROVE g[N] = f[N]
  <2> DEFINE M == {n \in Nat : n <= N => g[n] = f[n]}
  <2>1. \A n \in 0..N : g[n] = CASE n = 0 -> <<>> [] n > 0 /\ q[n] \in S -> g[n - 1]
                                 [] OTHER -> Append(g[n - 1], q[n])
    BY <1>8
  <2> HIDE DEF Def
  <2>2. 0 \in M BY <1>1, <1>4, <2>1
  <2>3. ASSUME NEW n \in M PROVE n + 1 \in M
    <3>1. SUFFICES ASSUME n + 1 <= N PROVE g[n + 1] = f[n + 1] BY <2>3
    <3>2. n \in Nat /\ g[n] = f[n] BY <2>3, <3>1, <1>1
    <3>3. n + 1 \in 1..N /\ n + 1 \in 0..N /\ n + 1 # 0 /\ n + 1 > 0 /\ n + 1 - 1 = n BY <3>1, <3>2
    <3>4. g[n + 1] = IF q[n + 1] \in S THEN g[n] ELSE Append(g[n], q[n + 1])
      BY <2>1, <3>3
    <3>5. f[n + 1] = IF q[n + 1] \in S THEN f[n] ELSE Append(f[n], q[n + 1])
      BY <1>6, <3>3
    <3> QED BY <3>2, <3>4, <3>5
  <2>4. N \in M BY <1>1, <2>2, <2>3, SetInduction
  <2> QED BY <1>1, <2>4
<1>9. Without(q, S) = f[N]
  <2> DEFINE g == CHOOSE g : g = Def(g)
  <2>1. g = Def(g)  BY <1>7, Zenon
  <2>2. Without(q, S) = g[N] BY DEF Without
  <2> HIDE DEF g
  <2> QED BY <1>8, <2>1, <2>2
<1> DEFINE Kept(n) ==
             /\ \E e : /\ e \in [1..Len(f[n]) -> 1..n]
                       /\ \A k \in 1..Len(f[n]) : f[n][k] = q[e[k]] /\ q[e[k]] \notin S
                       /\ \A j, k \in 1..Len(f[n]) : j < k => e[j] < e[k]
             /\ \A k \in 1..n : q[k] \notin S => \E j \in 1..Len(f[n]) : f[n][j] = q[k]
           M == {n \in Nat : n <= N => Kept(n)}
<1>10. Kept(0)
  <2>1. f[0] = <<>> BY <1>4
  <2>2. Len(f[0]) = 0 BY <2>1
  <2> DEFINE e == [k \in 1..0 |-> 1]
  <2>3. e \in [1..0 -> 1..0] OBVIOUS
  <2> HIDE DEF e
  <2> QED BY <2>2, <2>3
<1>11. ASSUME NEW n \in Nat, n + 1 <= N, Kept(n) PROVE Kept(n + 1)
  <2>1. n + 1 \in 1..N /\ n \in 0..N /\ n + 1 - 1 = n BY <1>1, <1>11
  <2>2. f[n + 1] = IF q[n + 1] \in S THEN f[n] ELSE Append(f[n], q[n + 1]) BY <1>6, <2>1
  <2>3. PICK e : /\ e \in [1..Len(f[n]) -> 1..n]
                 /\ \A k \in 1..Len(f[n]) : f[n][k] = q[e[k]] /\ q[e[k]] \notin S
                 /\ \A j, k \in 1..Len(f[n]) : j < k => e[j] < e[k]
    BY <1>11
  <2>4. \A k \in 1..n : q[k] \notin S => \E j \in 1..Len(f[n]) : f[n][j] = q[k] BY <1>11
  <2>5. f[n] \in Seq(T) /\ Len(f[n]) \in Nat BY <1>4, <2>1
  <2> DEFINE r == f[n + 1]
             l == Len(f[n])
  <2>6. CASE q[n + 1] \in S
    <3>1. r = f[n] BY <2>2, <2>6
    <3>2. e \in [1..Len(r) -> 1..(n + 1)]
      <4>1. \A k \in 1..Len(f[n]) : e[k] \in 1..(n + 1) BY <2>3, SMTT(30)
      <4> QED BY <2>3, <3>1, <4>1
    <3>3. ASSUME NEW k \in 1..(n + 1), q[k] \notin S PROVE \E j \in 1..Len(r) : r[j] = q[k]
      <4>1. k \in 1..n BY <2>6, <3>3
      <4> QED BY <2>4, <3>1, <3>3, <4>1
    <3> QED BY <2>3, <3>1, <3>2, <3>3, SMTT(30)
  <2>7. CASE q[n + 1] \notin S
    <3>1. r = Append(f[n], q[n + 1]) BY <2>2, <2>7
    <3>2. /\ Len(r) = l + 1 /\ r[l + 1] = q[n + 1]
          /\ \A k \in 1..l : r[k] = f[n][k]
      BY <1>1, <2>1, <2>5, <3>1
    <3> DEFINE d == [k \in 1..(l + 1) |-> IF k = l + 1 THEN n + 1 ELSE e[k]]
    <3>3. d[l + 1] = n + 1 /\ \A k \in 1..l : d[k] = e[k] /\ e[k] \in 1..n
      <4>1. l + 1 \in 1..(l + 1) /\ \A k \in 1..l : k \in 1..(l + 1) /\ k # l + 1 BY <2>5
      <4> QED BY <2>3, <4>1
    <3>0. l \in Nat BY <2>5
    <3> HIDE DEF d, r, l
    <3>5. \A k \in 1..(l + 1) : k = l + 1 \/ k \in 1..l BY <3>0
    <3>4. d \in [1..(l + 1) -> 1..(n + 1)]
      <4>1. \A k \in 1..(l + 1) : d[k] \in 1..(n + 1) BY <1>11, <3>3, <3>5
      <4> QED BY <4>1 DEF d
    <3>6. \A k \in 1..Len(r) : r[k] = q[d[k]] /\ q[d[k]] \notin S
      BY <2>3, <2>7, <3>2, <3>3, <3>5 DEF l
    <3>7. \A j, k \in 1..Len(r) : j < k => d[j] < d[k]
      <4>1. SUFFICES ASSUME NEW j \in 1..(l + 1), NEW k \in 1..(l + 1), j < k PROVE d[j] < d[k]
        BY <3>2
      <4>2. j \in 1..l BY <2>5, <4>1, <3>5 DEF l
      <4>3. CASE k = l + 1 BY <1>11, <3>3, <4>2, <4>3
      <4>4. CASE k \in 1..l BY <2>3, <3>3, <4>1, <4>2, <4>4 DEF l
      <4> QED BY <3>5, <4>3, <4>4
    <3>8. ASSUME NEW k \in 1..(n + 1), q[k] \notin S PROVE \E j \in 1..Len(r) : r[j] = q[k]
      <4>1. l + 1 \in 1..Len(r) /\ \A j \in 1..l : j \in 1..Len(r)
        BY <3>0, <3>2
      <4>2. k = n + 1 \/ k \in 1..n BY <1>11
      <4> QED BY <2>4, <3>2, <3>8, <4>1, <4>2 DEF l
    <3> QED BY <3>2, <3>4, <3>6, <3>7, <3>8 DEF r
  <2> QED BY <2>6, <2>7
<1>12. Kept(N)
  <2> HIDE DEF Kept
  <2>1. 0 \in M BY <1>10
  <2>2. \A n \in M : n + 1 \in M
    <3>1. ASSUME NEW n \in M, n + 1 <= N PROVE Kept(n + 1)
      <4>1. n \in Nat /\ n <= N BY <1>1, <3>1
      <4> QED BY <1>11, <3>1, <4>1
    <3> QED BY <3>1
  <2>3. N \in M BY <1>1, <2>1, <2>2, SetInduction
  <2> QED BY <1>1, <2>3
<1>13. f[N] \in Seq(T) BY <1>1, <1>4
<1> QED BY <1>9, <1>12, <1>13, ZenonT(60) DEF Subsequence
=============================================================================
